---- MODULE Spec2Model ----
(***************************************************************************)
(* Model of schatz_evidence_processor.py: the evidence intake pipeline     *)
(* (SchatzEvidenceProcessor): identity mint, fingerprint, metadata         *)
(* extraction, relevance scoring, ledger upsert, directory scan, report.   *)
(* Text is modelled as sequences of one-character strings so that          *)
(* lower-casing, substring search, prefix/suffix tests and slicing are     *)
(* computed the way the Python code computes them.                         *)
(***************************************************************************)
EXTENDS Integers, Sequences, FiniteSets, TLC

(***************************************************************************)
(* Characters and bytes.  An ASCII character is the one-character string   *)
(* of itself ("\t", "\n", "\f", "\r" for the controls that have an         *)
(* escape); any other character, and the grave accent, which no string of  *)
(* this module can hold, is the token of its code point, "U+" and at least *)
(* four hexadecimal digits.  A byte below 0x80 is written as the  *)
(* character it encodes, a byte from 0x80 on as "0x" and two hexadecimal   *)
(* digits.  A str is a sequence of characters, a bytes object a sequence   *)
(* of bytes.                                                               *)
(***************************************************************************)
HexDigits == <<"0","1","2","3","4","5","6","7","8","9","A","B","C","D","E","F">>
Printable ==
  <<" ","!","\"","#","$","%","&","'","(",")","*","+",",","-",".","/","0","1","2","3","4",
       "5","6","7","8","9",":",";","<","=",">","?","@","A","B","C","D","E","F","G","H","I",
       "J","K","L","M","N","O","P","Q","R","S","T","U","V","W","X","Y","Z","[","\\","]","^",
       "_","a","b","c","d","e","f","g","h","i","j","k","l","m","n","o","p","q","r","s","t",
       "u","v","w","x","y","z","{","|","}","~">>

\* n below 16^6 in hexadecimal, in at least width digits
HexOf(n, width) ==
  LET digit(k) == IF width > k \/ n >= 16^k
                  THEN HexDigits[((n \div 16^k) % 16) + 1] ELSE ""
  IN  digit(5) \o digit(4) \o digit(3) \o digit(2) \o digit(1) \o digit(0)

CodePoint(n) == "U+" \o HexOf(n, 4)

\* chr(n)
Char(n) ==
  CASE n = 9 -> "\t"
    [] n = 10 -> "\n"
    [] n = 12 -> "\f"
    [] n = 13 -> "\r"
    [] n \in 32..95 -> Printable[n - 31]
    [] n \in 97..126 -> Printable[n - 32]
    [] OTHER -> CodePoint(n)

\* bytes([n])
Byte(n) == IF n < 128 THEN Char(n) ELSE "0x" \o HexOf(n, 2)

HighBytes == {Byte(n) : n \in 128..255}

\* the bytes from 0x80 on, in order
HighByteSeq == [k \in 1..128 |-> Byte(127 + k)]

ByteValue(byte) == 127 + CHOOSE k \in 1..128 : HighByteSeq[k] = byte

\* the value of byte i of b when it is one from 0x80 on; -1 for an ASCII
\* byte and past the end
HighAt(b, i) == IF i <= Len(b) /\ b[i] \in HighBytes THEN ByteValue(b[i]) ELSE -1

\* the character whose well-formed UTF-8 encoding starts at byte i of b, ""
\* when none does (a continuation byte, a lead byte without its
\* continuation bytes, an overlong form, a surrogate, a value past U+10FFFF)
Utf8At(b, i) ==
  LET b0 == HighAt(b, i)
      b1 == HighAt(b, i + 1)
      b2 == HighAt(b, i + 2)
      b3 == HighAt(b, i + 3)
      cont(x) == x \in 128..191
  IN  IF b0 \in 194..223
      THEN IF cont(b1) THEN CodePoint((b0 - 192) * 64 + (b1 - 128)) ELSE ""
      ELSE IF b0 \in 224..239
      THEN IF /\ cont(b1) /\ cont(b2)
              /\ b0 = 224 => b1 >= 160
              /\ b0 = 237 => b1 <= 159
           THEN CodePoint((b0 - 224) * 4096 + (b1 - 128) * 64 + (b2 - 128))
           ELSE ""
      ELSE IF b0 \in 240..244
      THEN IF /\ cont(b1) /\ cont(b2) /\ cont(b3)
              /\ b0 = 240 => b1 >= 144
              /\ b0 = 244 => b1 <= 143
           THEN CodePoint((b0 - 240) * 262144 + (b1 - 128) * 4096
                            + (b2 - 128) * 64 + (b3 - 128))
           ELSE ""
      ELSE ""

\* open(filepath, 'r', encoding='utf-8', errors='ignore'): every well-formed
\* sequence becomes its character and every byte that belongs to none is
\* dropped.  A lead byte is never the continuation of another sequence, so
\* whether a character starts at a byte is decided at that byte.
decode(b) ==
  IF \A i \in 1..Len(b) : b[i] \notin HighBytes THEN b
  ELSE SelectSeq([i \in 1..Len(b) |->
                    IF b[i] \in HighBytes THEN Utf8At(b, i) ELSE b[i]],
                 LAMBDA c : c # "")

(***************************************************************************)
(* Text primitives (Python str methods used by the code)                   *)
(***************************************************************************)
\* The case tables of str.lower() (Unicode 14.0, CPython 3.11), as ranges
\* of code points <<first, last>>: the characters that are cased and not
\* case-ignorable, and the case-ignorable ones
CasedRanges ==
  <<<<65, 90>>, <<97, 122>>, <<170, 170>>, <<181, 181>>, <<186, 186>>, <<192, 214>>,
    <<216, 246>>, <<248, 442>>, <<444, 447>>, <<452, 659>>, <<661, 687>>, <<880, 883>>,
    <<886, 887>>, <<891, 893>>, <<895, 895>>, <<902, 902>>, <<904, 906>>, <<908, 908>>,
    <<910, 929>>, <<931, 1013>>, <<1015, 1153>>, <<1162, 1327>>, <<1329, 1366>>, <<1376, 1416>>,
    <<4256, 4293>>, <<4295, 4295>>, <<4301, 4301>>, <<4304, 4346>>, <<4349, 4351>>, <<5024, 5109>>,
    <<5112, 5117>>, <<7296, 7304>>, <<7312, 7354>>, <<7357, 7359>>, <<7424, 7467>>, <<7531, 7543>>,
    <<7545, 7578>>, <<7680, 7957>>, <<7960, 7965>>, <<7968, 8005>>, <<8008, 8013>>, <<8016, 8023>>,
    <<8025, 8025>>, <<8027, 8027>>, <<8029, 8029>>, <<8031, 8061>>, <<8064, 8116>>, <<8118, 8124>>,
    <<8126, 8126>>, <<8130, 8132>>, <<8134, 8140>>, <<8144, 8147>>, <<8150, 8155>>, <<8160, 8172>>,
    <<8178, 8180>>, <<8182, 8188>>, <<8450, 8450>>, <<8455, 8455>>, <<8458, 8467>>, <<8469, 8469>>,
    <<8473, 8477>>, <<8484, 8484>>, <<8486, 8486>>, <<8488, 8488>>, <<8490, 8493>>, <<8495, 8500>>,
    <<8505, 8505>>, <<8508, 8511>>, <<8517, 8521>>, <<8526, 8526>>, <<8544, 8575>>, <<8579, 8580>>,
    <<9398, 9449>>, <<11264, 11387>>, <<11390, 11492>>, <<11499, 11502>>, <<11506, 11507>>, <<11520, 11557>>,
    <<11559, 11559>>, <<11565, 11565>>, <<42560, 42605>>, <<42624, 42651>>, <<42786, 42863>>, <<42865, 42887>>,
    <<42891, 42894>>, <<42896, 42954>>, <<42960, 42961>>, <<42963, 42963>>, <<42965, 42969>>, <<42997, 42998>>,
    <<43002, 43002>>, <<43824, 43866>>, <<43872, 43880>>, <<43888, 43967>>, <<64256, 64262>>, <<64275, 64279>>,
    <<65313, 65338>>, <<65345, 65370>>, <<66560, 66639>>, <<66736, 66771>>, <<66776, 66811>>, <<66928, 66938>>,
    <<66940, 66954>>, <<66956, 66962>>, <<66964, 66965>>, <<66967, 66977>>, <<66979, 66993>>, <<66995, 67001>>,
    <<67003, 67004>>, <<68736, 68786>>, <<68800, 68850>>, <<71840, 71903>>, <<93760, 93823>>, <<119808, 119892>>,
    <<119894, 119964>>, <<119966, 119967>>, <<119970, 119970>>, <<119973, 119974>>, <<119977, 119980>>, <<119982, 119993>>,
    <<119995, 119995>>, <<119997, 120003>>, <<120005, 120069>>, <<120071, 120074>>, <<120077, 120084>>, <<120086, 120092>>,
    <<120094, 120121>>, <<120123, 120126>>, <<120128, 120132>>, <<120134, 120134>>, <<120138, 120144>>, <<120146, 120485>>,
    <<120488, 120512>>, <<120514, 120538>>, <<120540, 120570>>, <<120572, 120596>>, <<120598, 120628>>, <<120630, 120654>>,
    <<120656, 120686>>, <<120688, 120712>>, <<120714, 120744>>, <<120746, 120770>>, <<120772, 120779>>, <<122624, 122633>>,
    <<122635, 122654>>, <<125184, 125251>>, <<127280, 127305>>, <<127312, 127337>>, <<127344, 127369>>>>

CaseIgnorableRanges ==
  <<<<39, 39>>, <<46, 46>>, <<58, 58>>, <<94, 94>>, <<96, 96>>, <<168, 168>>,
    <<173, 173>>, <<175, 175>>, <<180, 180>>, <<183, 184>>, <<688, 879>>, <<884, 885>>,
    <<890, 890>>, <<900, 901>>, <<903, 903>>, <<1155, 1161>>, <<1369, 1369>>, <<1375, 1375>>,
    <<1425, 1469>>, <<1471, 1471>>, <<1473, 1474>>, <<1476, 1477>>, <<1479, 1479>>, <<1524, 1524>>,
    <<1536, 1541>>, <<1552, 1562>>, <<1564, 1564>>, <<1600, 1600>>, <<1611, 1631>>, <<1648, 1648>>,
    <<1750, 1757>>, <<1759, 1768>>, <<1770, 1773>>, <<1807, 1807>>, <<1809, 1809>>, <<1840, 1866>>,
    <<1958, 1968>>, <<2027, 2037>>, <<2042, 2042>>, <<2045, 2045>>, <<2070, 2093>>, <<2137, 2139>>,
    <<2184, 2184>>, <<2192, 2193>>, <<2200, 2207>>, <<2249, 2306>>, <<2362, 2362>>, <<2364, 2364>>,
    <<2369, 2376>>, <<2381, 2381>>, <<2385, 2391>>, <<2402, 2403>>, <<2417, 2417>>, <<2433, 2433>>,
    <<2492, 2492>>, <<2497, 2500>>, <<2509, 2509>>, <<2530, 2531>>, <<2558, 2558>>, <<2561, 2562>>,
    <<2620, 2620>>, <<2625, 2626>>, <<2631, 2632>>, <<2635, 2637>>, <<2641, 2641>>, <<2672, 2673>>,
    <<2677, 2677>>, <<2689, 2690>>, <<2748, 2748>>, <<2753, 2757>>, <<2759, 2760>>, <<2765, 2765>>,
    <<2786, 2787>>, <<2810, 2815>>, <<2817, 2817>>, <<2876, 2876>>, <<2879, 2879>>, <<2881, 2884>>,
    <<2893, 2893>>, <<2901, 2902>>, <<2914, 2915>>, <<2946, 2946>>, <<3008, 3008>>, <<3021, 3021>>,
    <<3072, 3072>>, <<3076, 3076>>, <<3132, 3132>>, <<3134, 3136>>, <<3142, 3144>>, <<3146, 3149>>,
    <<3157, 3158>>, <<3170, 3171>>, <<3201, 3201>>, <<3260, 3260>>, <<3263, 3263>>, <<3270, 3270>>,
    <<3276, 3277>>, <<3298, 3299>>, <<3328, 3329>>, <<3387, 3388>>, <<3393, 3396>>, <<3405, 3405>>,
    <<3426, 3427>>, <<3457, 3457>>, <<3530, 3530>>, <<3538, 3540>>, <<3542, 3542>>, <<3633, 3633>>,
    <<3636, 3642>>, <<3654, 3662>>, <<3761, 3761>>, <<3764, 3772>>, <<3782, 3782>>, <<3784, 3789>>,
    <<3864, 3865>>, <<3893, 3893>>, <<3895, 3895>>, <<3897, 3897>>, <<3953, 3966>>, <<3968, 3972>>,
    <<3974, 3975>>, <<3981, 3991>>, <<3993, 4028>>, <<4038, 4038>>, <<4141, 4144>>, <<4146, 4151>>,
    <<4153, 4154>>, <<4157, 4158>>, <<4184, 4185>>, <<4190, 4192>>, <<4209, 4212>>, <<4226, 4226>>,
    <<4229, 4230>>, <<4237, 4237>>, <<4253, 4253>>, <<4348, 4348>>, <<4957, 4959>>, <<5906, 5908>>,
    <<5938, 5939>>, <<5970, 5971>>, <<6002, 6003>>, <<6068, 6069>>, <<6071, 6077>>, <<6086, 6086>>,
    <<6089, 6099>>, <<6103, 6103>>, <<6109, 6109>>, <<6155, 6159>>, <<6211, 6211>>, <<6277, 6278>>,
    <<6313, 6313>>, <<6432, 6434>>, <<6439, 6440>>, <<6450, 6450>>, <<6457, 6459>>, <<6679, 6680>>,
    <<6683, 6683>>, <<6742, 6742>>, <<6744, 6750>>, <<6752, 6752>>, <<6754, 6754>>, <<6757, 6764>>,
    <<6771, 6780>>, <<6783, 6783>>, <<6823, 6823>>, <<6832, 6862>>, <<6912, 6915>>, <<6964, 6964>>,
    <<6966, 6970>>, <<6972, 6972>>, <<6978, 6978>>, <<7019, 7027>>, <<7040, 7041>>, <<7074, 7077>>,
    <<7080, 7081>>, <<7083, 7085>>, <<7142, 7142>>, <<7144, 7145>>, <<7149, 7149>>, <<7151, 7153>>,
    <<7212, 7219>>, <<7222, 7223>>, <<7288, 7293>>, <<7376, 7378>>, <<7380, 7392>>, <<7394, 7400>>,
    <<7405, 7405>>, <<7412, 7412>>, <<7416, 7417>>, <<7468, 7530>>, <<7544, 7544>>, <<7579, 7679>>,
    <<8125, 8125>>, <<8127, 8129>>, <<8141, 8143>>, <<8157, 8159>>, <<8173, 8175>>, <<8189, 8190>>,
    <<8203, 8207>>, <<8216, 8217>>, <<8228, 8228>>, <<8231, 8231>>, <<8234, 8238>>, <<8288, 8292>>,
    <<8294, 8303>>, <<8305, 8305>>, <<8319, 8319>>, <<8336, 8348>>, <<8400, 8432>>, <<11388, 11389>>,
    <<11503, 11505>>, <<11631, 11631>>, <<11647, 11647>>, <<11744, 11775>>, <<11823, 11823>>, <<12293, 12293>>,
    <<12330, 12333>>, <<12337, 12341>>, <<12347, 12347>>, <<12441, 12446>>, <<12540, 12542>>, <<40981, 40981>>,
    <<42232, 42237>>, <<42508, 42508>>, <<42607, 42610>>, <<42612, 42621>>, <<42623, 42623>>, <<42652, 42655>>,
    <<42736, 42737>>, <<42752, 42785>>, <<42864, 42864>>, <<42888, 42890>>, <<42994, 42996>>, <<43000, 43001>>,
    <<43010, 43010>>, <<43014, 43014>>, <<43019, 43019>>, <<43045, 43046>>, <<43052, 43052>>, <<43204, 43205>>,
    <<43232, 43249>>, <<43263, 43263>>, <<43302, 43309>>, <<43335, 43345>>, <<43392, 43394>>, <<43443, 43443>>,
    <<43446, 43449>>, <<43452, 43453>>, <<43471, 43471>>, <<43493, 43494>>, <<43561, 43566>>, <<43569, 43570>>,
    <<43573, 43574>>, <<43587, 43587>>, <<43596, 43596>>, <<43632, 43632>>, <<43644, 43644>>, <<43696, 43696>>,
    <<43698, 43700>>, <<43703, 43704>>, <<43710, 43711>>, <<43713, 43713>>, <<43741, 43741>>, <<43756, 43757>>,
    <<43763, 43764>>, <<43766, 43766>>, <<43867, 43871>>, <<43881, 43883>>, <<44005, 44005>>, <<44008, 44008>>,
    <<44013, 44013>>, <<64286, 64286>>, <<64434, 64450>>, <<65024, 65039>>, <<65043, 65043>>, <<65056, 65071>>,
    <<65106, 65106>>, <<65109, 65109>>, <<65279, 65279>>, <<65287, 65287>>, <<65294, 65294>>, <<65306, 65306>>,
    <<65342, 65342>>, <<65344, 65344>>, <<65392, 65392>>, <<65438, 65439>>, <<65507, 65507>>, <<65529, 65531>>,
    <<66045, 66045>>, <<66272, 66272>>, <<66422, 66426>>, <<67456, 67461>>, <<67463, 67504>>, <<67506, 67514>>,
    <<68097, 68099>>, <<68101, 68102>>, <<68108, 68111>>, <<68152, 68154>>, <<68159, 68159>>, <<68325, 68326>>,
    <<68900, 68903>>, <<69291, 69292>>, <<69446, 69456>>, <<69506, 69509>>, <<69633, 69633>>, <<69688, 69702>>,
    <<69744, 69744>>, <<69747, 69748>>, <<69759, 69761>>, <<69811, 69814>>, <<69817, 69818>>, <<69821, 69821>>,
    <<69826, 69826>>, <<69837, 69837>>, <<69888, 69890>>, <<69927, 69931>>, <<69933, 69940>>, <<70003, 70003>>,
    <<70016, 70017>>, <<70070, 70078>>, <<70089, 70092>>, <<70095, 70095>>, <<70191, 70193>>, <<70196, 70196>>,
    <<70198, 70199>>, <<70206, 70206>>, <<70367, 70367>>, <<70371, 70378>>, <<70400, 70401>>, <<70459, 70460>>,
    <<70464, 70464>>, <<70502, 70508>>, <<70512, 70516>>, <<70712, 70719>>, <<70722, 70724>>, <<70726, 70726>>,
    <<70750, 70750>>, <<70835, 70840>>, <<70842, 70842>>, <<70847, 70848>>, <<70850, 70851>>, <<71090, 71093>>,
    <<71100, 71101>>, <<71103, 71104>>, <<71132, 71133>>, <<71219, 71226>>, <<71229, 71229>>, <<71231, 71232>>,
    <<71339, 71339>>, <<71341, 71341>>, <<71344, 71349>>, <<71351, 71351>>, <<71453, 71455>>, <<71458, 71461>>,
    <<71463, 71467>>, <<71727, 71735>>, <<71737, 71738>>, <<71995, 71996>>, <<71998, 71998>>, <<72003, 72003>>,
    <<72148, 72151>>, <<72154, 72155>>, <<72160, 72160>>, <<72193, 72202>>, <<72243, 72248>>, <<72251, 72254>>,
    <<72263, 72263>>, <<72273, 72278>>, <<72281, 72283>>, <<72330, 72342>>, <<72344, 72345>>, <<72752, 72758>>,
    <<72760, 72765>>, <<72767, 72767>>, <<72850, 72871>>, <<72874, 72880>>, <<72882, 72883>>, <<72885, 72886>>,
    <<73009, 73014>>, <<73018, 73018>>, <<73020, 73021>>, <<73023, 73029>>, <<73031, 73031>>, <<73104, 73105>>,
    <<73109, 73109>>, <<73111, 73111>>, <<73459, 73460>>, <<78896, 78904>>, <<92912, 92916>>, <<92976, 92982>>,
    <<92992, 92995>>, <<94031, 94031>>, <<94095, 94111>>, <<94176, 94177>>, <<94179, 94180>>, <<110576, 110579>>,
    <<110581, 110587>>, <<110589, 110590>>, <<113821, 113822>>, <<113824, 113827>>, <<118528, 118573>>, <<118576, 118598>>,
    <<119143, 119145>>, <<119155, 119170>>, <<119173, 119179>>, <<119210, 119213>>, <<119362, 119364>>, <<121344, 121398>>,
    <<121403, 121452>>, <<121461, 121461>>, <<121476, 121476>>, <<121499, 121503>>, <<121505, 121519>>, <<122880, 122886>>,
    <<122888, 122904>>, <<122907, 122913>>, <<122915, 122916>>, <<122918, 122922>>, <<123184, 123197>>, <<123566, 123566>>,
    <<123628, 123631>>, <<125136, 125142>>, <<125252, 125259>>, <<127995, 127999>>, <<917505, 917505>>, <<917536, 917631>>,
    <<917760, 917999>>>>

\* <<first, last, step, delta>>: every step-th character from first to last
\* has the lower-case form delta code points further on
LowerRules ==
  <<<<65, 90, 1, 32>>, <<192, 214, 1, 32>>, <<216, 222, 1, 32>>, <<256, 302, 2, 1>>,
    <<306, 310, 2, 1>>, <<313, 327, 2, 1>>, <<330, 374, 2, 1>>, <<376, 376, 1, -121>>,
    <<377, 381, 2, 1>>, <<385, 385, 1, 210>>, <<386, 388, 2, 1>>, <<390, 390, 1, 206>>,
    <<391, 391, 1, 1>>, <<393, 394, 1, 205>>, <<395, 395, 1, 1>>, <<398, 398, 1, 79>>,
    <<399, 399, 1, 202>>, <<400, 400, 1, 203>>, <<401, 401, 1, 1>>, <<403, 403, 1, 205>>,
    <<404, 404, 1, 207>>, <<406, 406, 1, 211>>, <<407, 407, 1, 209>>, <<408, 408, 1, 1>>,
    <<412, 412, 1, 211>>, <<413, 413, 1, 213>>, <<415, 415, 1, 214>>, <<416, 420, 2, 1>>,
    <<422, 422, 1, 218>>, <<423, 423, 1, 1>>, <<425, 425, 1, 218>>, <<428, 428, 1, 1>>,
    <<430, 430, 1, 218>>, <<431, 431, 1, 1>>, <<433, 434, 1, 217>>, <<435, 437, 2, 1>>,
    <<439, 439, 1, 219>>, <<440, 440, 1, 1>>, <<444, 444, 1, 1>>, <<452, 452, 1, 2>>,
    <<453, 453, 1, 1>>, <<455, 455, 1, 2>>, <<456, 456, 1, 1>>, <<458, 458, 1, 2>>,
    <<459, 475, 2, 1>>, <<478, 494, 2, 1>>, <<497, 497, 1, 2>>, <<498, 500, 2, 1>>,
    <<502, 502, 1, -97>>, <<503, 503, 1, -56>>, <<504, 542, 2, 1>>, <<544, 544, 1, -130>>,
    <<546, 562, 2, 1>>, <<570, 570, 1, 10795>>, <<571, 571, 1, 1>>, <<573, 573, 1, -163>>,
    <<574, 574, 1, 10792>>, <<577, 577, 1, 1>>, <<579, 579, 1, -195>>, <<580, 580, 1, 69>>,
    <<581, 581, 1, 71>>, <<582, 590, 2, 1>>, <<880, 882, 2, 1>>, <<886, 886, 1, 1>>,
    <<895, 895, 1, 116>>, <<902, 902, 1, 38>>, <<904, 906, 1, 37>>, <<908, 908, 1, 64>>,
    <<910, 911, 1, 63>>, <<913, 929, 1, 32>>, <<931, 939, 1, 32>>, <<975, 975, 1, 8>>,
    <<984, 1006, 2, 1>>, <<1012, 1012, 1, -60>>, <<1015, 1015, 1, 1>>, <<1017, 1017, 1, -7>>,
    <<1018, 1018, 1, 1>>, <<1021, 1023, 1, -130>>, <<1024, 1039, 1, 80>>, <<1040, 1071, 1, 32>>,
    <<1120, 1152, 2, 1>>, <<1162, 1214, 2, 1>>, <<1216, 1216, 1, 15>>, <<1217, 1229, 2, 1>>,
    <<1232, 1326, 2, 1>>, <<1329, 1366, 1, 48>>, <<4256, 4293, 1, 7264>>, <<4295, 4295, 1, 7264>>,
    <<4301, 4301, 1, 7264>>, <<5024, 5103, 1, 38864>>, <<5104, 5109, 1, 8>>, <<7312, 7354, 1, -3008>>,
    <<7357, 7359, 1, -3008>>, <<7680, 7828, 2, 1>>, <<7838, 7838, 1, -7615>>, <<7840, 7934, 2, 1>>,
    <<7944, 7951, 1, -8>>, <<7960, 7965, 1, -8>>, <<7976, 7983, 1, -8>>, <<7992, 7999, 1, -8>>,
    <<8008, 8013, 1, -8>>, <<8025, 8031, 2, -8>>, <<8040, 8047, 1, -8>>, <<8072, 8079, 1, -8>>,
    <<8088, 8095, 1, -8>>, <<8104, 8111, 1, -8>>, <<8120, 8121, 1, -8>>, <<8122, 8123, 1, -74>>,
    <<8124, 8124, 1, -9>>, <<8136, 8139, 1, -86>>, <<8140, 8140, 1, -9>>, <<8152, 8153, 1, -8>>,
    <<8154, 8155, 1, -100>>, <<8168, 8169, 1, -8>>, <<8170, 8171, 1, -112>>, <<8172, 8172, 1, -7>>,
    <<8184, 8185, 1, -128>>, <<8186, 8187, 1, -126>>, <<8188, 8188, 1, -9>>, <<8486, 8486, 1, -7517>>,
    <<8490, 8490, 1, -8383>>, <<8491, 8491, 1, -8262>>, <<8498, 8498, 1, 28>>, <<8544, 8559, 1, 16>>,
    <<8579, 8579, 1, 1>>, <<9398, 9423, 1, 26>>, <<11264, 11311, 1, 48>>, <<11360, 11360, 1, 1>>,
    <<11362, 11362, 1, -10743>>, <<11363, 11363, 1, -3814>>, <<11364, 11364, 1, -10727>>, <<11367, 11371, 2, 1>>,
    <<11373, 11373, 1, -10780>>, <<11374, 11374, 1, -10749>>, <<11375, 11375, 1, -10783>>, <<11376, 11376, 1, -10782>>,
    <<11378, 11378, 1, 1>>, <<11381, 11381, 1, 1>>, <<11390, 11391, 1, -10815>>, <<11392, 11490, 2, 1>>,
    <<11499, 11501, 2, 1>>, <<11506, 11506, 1, 1>>, <<42560, 42604, 2, 1>>, <<42624, 42650, 2, 1>>,
    <<42786, 42798, 2, 1>>, <<42802, 42862, 2, 1>>, <<42873, 42875, 2, 1>>, <<42877, 42877, 1, -35332>>,
    <<42878, 42886, 2, 1>>, <<42891, 42891, 1, 1>>, <<42893, 42893, 1, -42280>>, <<42896, 42898, 2, 1>>,
    <<42902, 42920, 2, 1>>, <<42922, 42922, 1, -42308>>, <<42923, 42923, 1, -42319>>, <<42924, 42924, 1, -42315>>,
    <<42925, 42925, 1, -42305>>, <<42926, 42926, 1, -42308>>, <<42928, 42928, 1, -42258>>, <<42929, 42929, 1, -42282>>,
    <<42930, 42930, 1, -42261>>, <<42931, 42931, 1, 928>>, <<42932, 42946, 2, 1>>, <<42948, 42948, 1, -48>>,
    <<42949, 42949, 1, -42307>>, <<42950, 42950, 1, -35384>>, <<42951, 42953, 2, 1>>, <<42960, 42960, 1, 1>>,
    <<42966, 42968, 2, 1>>, <<42997, 42997, 1, 1>>, <<65313, 65338, 1, 32>>, <<66560, 66599, 1, 40>>,
    <<66736, 66771, 1, 40>>, <<66928, 66938, 1, 39>>, <<66940, 66954, 1, 39>>, <<66956, 66962, 1, 39>>,
    <<66964, 66965, 1, 39>>, <<68736, 68786, 1, 64>>, <<71840, 71871, 1, 32>>, <<93760, 93791, 1, 32>>,
    <<125184, 125217, 1, 34>>>>

CharsOf(rs) == UNION {{Char(n) : n \in rs[k][1]..rs[k][2]} : k \in 1..Len(rs)}

Cased == CharsOf(CasedRanges)

CaseIgnorable == CharsOf(CaseIgnorableRanges)

LowerPairs ==
  UNION {{<<Char(n), Char(n + LowerRules[k][4])>> :
            n \in {m \in LowerRules[k][1]..LowerRules[k][2] :
                     (m - LowerRules[k][1]) % LowerRules[k][3] = 0}} :
           k \in 1..Len(LowerRules)}

\* the characters that have a lower-case form of one character other than
\* themselves
HasLower == {p[1] : p \in LowerPairs}

Char_DottedI  == "U+0130"
Char_DotAbove == "U+0307"
Char_Sigma      == "U+03A3"
Char_SmallSigma == "U+03C3"
Char_FinalSigma == "U+03C2"

\* c.lower() of a one-character str: one character, or two for U+0130
LowerChar(c) ==
  IF c = Char_DottedI THEN <<"i", Char_DotAbove>>
  ELSE IF c \in HasLower THEN <<(CHOOSE p \in LowerPairs : p[1] = c)[2]>>
  ELSE <<c>>

\* U+03A3 stands in the Final_Sigma context: the nearest character before it
\* that is not case-ignorable is cased, and the nearest such character after
\* it, if there is one, is not
FinalSigma(s, i) ==
  LET before == {j \in 1..(i - 1) : s[j] \notin CaseIgnorable}
      after  == {j \in (i + 1)..Len(s) : s[j] \notin CaseIgnorable}
  IN  /\ before # {}
      /\ s[CHOOSE j \in before : \A k \in before : k <= j] \in Cased
      /\ after # {} => s[CHOOSE j \in after : \A k \in after : j <= k] \notin Cased

\* the lower-case form of character i of s
LowerAt(s, i) ==
  IF s[i] = Char_Sigma
  THEN <<IF FinalSigma(s, i) THEN Char_FinalSigma ELSE Char_SmallSigma>>
  ELSE LowerChar(s[i])

\* the concatenation of strs of one or two characters
Flatten(parts) ==
  SelectSeq([k \in 1..(2 * Len(parts)) |->
               LET p == parts[(k + 1) \div 2]
                   n == 2 - (k % 2)
               IN  IF n <= Len(p) THEN p[n] ELSE ""],
            LAMBDA c : c # "")

\* str.lower()
lower(s) == Flatten([i \in 1..Len(s) |-> LowerAt(s, i)])

\* "term in text": substring test
Contains(text, term) ==
  \E i \in 0..(Len(text) - Len(term)) : SubSeq(text, i + 1, i + Len(term)) = term

\* str.startswith / str.endswith
startswith(s, prefix) ==
  Len(s) >= Len(prefix) /\ SubSeq(s, 1, Len(prefix)) = prefix

endswith(s, suffix) ==
  Len(s) >= Len(suffix) /\ SubSeq(s, Len(s) - Len(suffix) + 1, Len(s)) = suffix

\* s[n:]
DropFirst(s, n) == SubSeq(s, n + 1, Len(s))

\* s[:n] and f.read(n)
TakeFirst(s, n) == SubSeq(s, 1, IF Len(s) < n THEN Len(s) ELSE n)

\* Characters of the code's texts that have no escape in a string of this
\* module, each written as a token of its code point
Char_VT == "U+000B"
Char_FS == "U+001C"
Char_GS == "U+001D"
Char_RS == "U+001E"
Char_US == "U+001F"

\* every character for which str.isspace() holds
Whitespace ==
  {" ", "\t", "\n", "\r", "\f", Char_VT, Char_FS, Char_GS, Char_RS, Char_US,
   "U+0085", "U+00A0", "U+1680", "U+2000", "U+2001", "U+2002", "U+2003",
   "U+2004", "U+2005", "U+2006", "U+2007", "U+2008", "U+2009", "U+200A",
   "U+2028", "U+2029", "U+202F", "U+205F", "U+3000"}

\* str.strip()
strip(s) ==
  LET keep == {i \in 1..Len(s) : s[i] \notin Whitespace}
  IN  IF keep = {} THEN <<>>
      ELSE LET lo == CHOOSE i \in keep : \A j \in keep : i <= j
               hi == CHOOSE i \in keep : \A j \in keep : i >= j
           IN  SubSeq(s, lo, hi)

\* open(filepath, 'r', ...).read(): text mode with newline=None turns every
\* "\r\n" and every lone "\r" of the decoded text into "\n"
text_mode(raw) ==
  LET \* the "\n" of a "\r\n" is dropped, any "\r" becomes "\n"
      translated == [i \in 1..Len(raw) |->
                      IF raw[i] = "\n" /\ i > 1 /\ raw[i - 1] = "\r" THEN ""
                      ELSE IF raw[i] = "\r" THEN "\n"
                      ELSE raw[i]]
  IN  SelectSeq(translated, LAMBDA c : c # "")

\* content.split('\n'): the pieces between consecutive newlines
split_lines(s) ==
  LET \* the newlines, each with its index, in order
      breaks == SelectSeq([i \in 1..Len(s) |-> <<s[i], i>>], LAMBDA p : p[1] = "\n")
      n == Len(breaks)
  IN  [k \in 1..(n + 1) |->
         SubSeq(s, IF k = 1 THEN 1 ELSE breaks[k - 1][2] + 1,
                   IF k = n + 1 THEN Len(s) ELSE breaks[k][2] - 1)]

(***************************************************************************)
(* Relevance scorer: assess_schatz_relevance                               *)
(***************************************************************************)
Term_schatz    == <<"s","c","h","a","t","z">>
Term_email     == <<"j","o","n","a","t","h","a","n","s","c","h","a","t","z","@","a","l","l","e","n","g",
       "l","a","s","s","m","a","n",".","c","o","m">>
Term_glassman  == <<"a","l","l","e","n"," ","g","l","a","s","s","m","a","n">>
Term_attorney  == <<"a","t","t","o","r","n","e","y">>
Term_legal     == <<"l","e","g","a","l">>
Term_counsel   == <<"c","o","u","n","s","e","l">>
Term_retainer  == <<"r","e","t","a","i","n","e","r">>
Term_billing   == <<"b","i","l","l","i","n","g">>
Term_invoice   == <<"i","n","v","o","i","c","e">>

LegalTerms     == {Term_attorney, Term_legal, Term_counsel}
FinancialTerms == {Term_retainer, Term_billing, Term_invoice}

Min(a, b) == IF a < b THEN a ELSE b

\* Faulty variants of the scorer: a clamp that is never applied, and a rule that
\* subtracts instead of adding.
assess_noclamp(filepath, content_sample) ==
  LET filepath_lower == lower(filepath)
      content_lower  == lower(content_sample)
      s1 == IF Contains(filepath_lower, Term_schatz) \/ Contains(content_lower, Term_schatz)
            THEN 8 ELSE 0
      s2 == s1 + (IF Contains(content_lower, Term_email) THEN 9 ELSE 0)
      s3 == s2 + (IF Contains(content_lower, Term_glassman) THEN 6 ELSE 0)
      s4 == s3 + (IF \E t \in LegalTerms : Contains(content_lower, t) THEN 3 ELSE 0)
      s5 == s4 + (IF \E t \in FinancialTerms : Contains(content_lower, t) THEN 4 ELSE 0)
  IN  s5

assess_subtracting(filepath, content_sample) ==
  LET filepath_lower == lower(filepath)
      content_lower  == lower(content_sample)
      s1 == IF Contains(filepath_lower, Term_schatz) \/ Contains(content_lower, Term_schatz)
            THEN 8 ELSE 0
      s2 == s1 + (IF Contains(content_lower, Term_email) THEN 9 ELSE 0)
      s3 == s2 + (IF Contains(content_lower, Term_glassman) THEN 6 ELSE 0)
      s4 == s3 - (IF \E t \in LegalTerms : Contains(content_lower, t) THEN 3 ELSE 0)
      s5 == s4 + (IF \E t \in FinancialTerms : Contains(content_lower, t) THEN 4 ELSE 0)
  IN  Min(IF s5 < 0 THEN 0 ELSE s5, 10)

assess_schatz_relevance(filepath, content_sample) ==
  LET filepath_lower == lower(filepath)
      content_lower  == lower(content_sample)
      s1 == IF Contains(filepath_lower, Term_schatz) \/ Contains(content_lower, Term_schatz)
            THEN 8 ELSE 0
      s2 == s1 + (IF Contains(content_lower, Term_email) THEN 9 ELSE 0)
      s3 == s2 + (IF Contains(content_lower, Term_glassman) THEN 6 ELSE 0)
      s4 == s3 + (IF \E t \in LegalTerms : Contains(content_lower, t) THEN 3 ELSE 0)
      s5 == s4 + (IF \E t \in FinancialTerms : Contains(content_lower, t) THEN 4 ELSE 0)
  IN  Min(s5, 10)

(***************************************************************************)
(* Metadata extractor: extract_email_metadata                              *)
(***************************************************************************)
HeaderLines == 50

Hdr_From    == <<"F","r","o","m",":">>
Hdr_To      == <<"T","o",":">>
Hdr_Subject == <<"S","u","b","j","e","c","t",":">>
Hdr_Date    == <<"D","a","t","e",":">>

\* metadata[key] = value on a dict
DictSet(md, key, value) ==
  [k \in DOMAIN md \cup {key} |-> IF k = key THEN value ELSE md[k]]

\* dict.get(key, default)
DictGet(md, key, default) == IF key \in DOMAIN md THEN md[key] ELSE default

EmptyDict == [k \in {} |-> <<>>]

\* one pass of the loop body over a line
HeaderStep(md, line) ==
  IF startswith(line, Hdr_From) THEN DictSet(md, "from", strip(DropFirst(line, 5)))
  ELSE IF startswith(line, Hdr_To) THEN DictSet(md, "to", strip(DropFirst(line, 3)))
  ELSE IF startswith(line, Hdr_Subject) THEN DictSet(md, "subject", strip(DropFirst(line, 8)))
  ELSE IF startswith(line, Hdr_Date) THEN DictSet(md, "date", strip(DropFirst(line, 5)))
  ELSE md

\* for line in lines[:50]: the loop body applied to each line in turn, the
\* dict threaded through; its keys are looked at on every pass so that the
\* dict is a value, not a pending computation, when the next pass starts
RECURSIVE HeaderLoop(_, _, _)
HeaderLoop(lines, i, md) ==
  IF i > Len(lines) THEN md
  ELSE LET next == HeaderStep(md, lines[i])
       IN  IF DOMAIN next \subseteq {"from", "to", "subject", "date"}
           THEN HeaderLoop(lines, i + 1, next)
           ELSE next

\* raw: the bytes of the file. readOk = FALSE: open() or read() raised, the
\* except branch leaves the dict empty
extract_email_metadata(raw, readOk) ==
  IF ~readOk THEN EmptyDict
  ELSE LET content == text_mode(decode(raw))
           lines == split_lines(content)
       IN  HeaderLoop(TakeFirst(lines, HeaderLines), 1, EmptyDict)

(***************************************************************************)
(* Metadata harness inputs: files (bytes) assembled from a run of blank     *)
(* lines and a few lines whose label and value are known by construction   *)
(***************************************************************************)
Separator == <<"\n">>

Line_from      == <<"F","r","o","m",":"," ","a","@","b",".","c","o","m">>
Line_from2     == <<"F","r","o","m",":","\t"," ","z","@","q",".","o","r","g"," ","\r">>
Line_to        == <<"T","o",":"," "," ","c","@","d",".","o","r","g"," ","\f">>
Line_subject   == <<"S","u","b","j","e","c","t",":","0xC2","0x85"," ","R","e",":"," ","f","0xFF","e","e",
       "s"," ","0xC2","0xA0">>
Line_date      == <<"D","a","t","e",":"," ","M","o","n",","," ","1"," ","J","a","n"," ","2","0","2","4">>
Line_lowercase == <<"f","r","o","m",":"," ","l","o","w","e","r","@","x",".","y">>
Line_indented  == <<" ","T","o",":"," ","i","n","d","e","n","t","e","d","@","x",".","y">>
Line_body      == <<"D","e","a","r"," ","M","r","."," ","S","c","h","a","t","z",",">>

Line_from_value    == <<"a","@","b",".","c","o","m">>
Line_from2_value   == <<"z","@","q",".","o","r","g">>
Line_to_value      == <<"c","@","d",".","o","r","g">>
Line_subject_value == <<"R","e",":"," ","f","e","e","s">>
Line_date_value    == <<"M","o","n",","," ","1"," ","J","a","n"," ","2","0","2","4">>

HeaderChoices ==
  <<Line_from, Line_from2, Line_to, Line_subject, Line_date, Line_lowercase,
    Line_indented, Line_body>>

MaxHdrLines == 2

HeaderSeqs == UNION {[1..n -> 1..Len(HeaderChoices)] : n \in 0..MaxHdrLines}

\* the chosen lines start at line 1, at line 49, at line 50 or at line 51
HeaderPads == {0, HeaderLines - 2, HeaderLines - 1, HeaderLines}

\* the text of the file: pad blank lines, then the chosen lines
RECURSIVE JoinLines(_)
JoinLines(ls) ==
  IF ls = <<>> THEN <<>>
  ELSE HeaderChoices[Head(ls)] \o Separator \o JoinLines(Tail(ls))

\* line terminators of the blank lines: "\n", or a lone "\r"
PadTerminators == {"\n", "\r"}

FileText(pad, eol, ls) == [i \in 1..pad |-> eol] \o JoinLines(ls)

(***************************************************************************)
(* Scoring harness inputs: content samples assembled from fragments whose  *)
(* rule membership is known by construction                                *)
(***************************************************************************)
Frag_surname  == <<"M","r","."," ","S","C","H","A","T","Z"," ","w","r","o","t","e">>
Frag_email    == <<"<","J","o","n","a","t","h","a","n","S","c","h","a","t","z","@","A","l","l","e","n",
       "G","l","a","s","s","m","a","n",".","c","o","m",">">>
Frag_glassman == <<"A","l","l","e","n"," ","G","l","a","s","s","m","a","n"," ","L","L","P">>
Frag_attorney == <<"A","T","T","O","R","N","E","Y">>
Frag_legal    == <<"L","e","g","a","l">>
Frag_counsel  == <<"c","o","u","n","s","e","l">>
Frag_retainer == <<"R","e","t","a","i","n","e","r">>
Frag_billing  == <<"B","I","L","L","I","N","G">>
Frag_invoice  == <<"i","n","v","o","i","c","e">>
Frag_neutral  == <<"l","u","n","c","h"," ","o","n"," ","F","r","i","d","a","y">>
Frag_dotted   == <<"B","U+0130","L","L","U+0130","N","G",","," ","U+212A","e","l","v","i","n">>

Fragments ==
  <<Frag_surname, Frag_email, Frag_glassman, Frag_attorney, Frag_legal,
    Frag_counsel, Frag_retainer, Frag_billing, Frag_invoice, Frag_neutral,
    Frag_dotted>>

ScorePath_plain   == <<"/","v","a","u","l","t","/","m","e","m","o",".","t","x","t">>
ScorePath_surname == <<"/","v","a","u","l","t","/","S","c","h","a","t","z","_","L","e","t","t","e","r",".",
       "T","X","T">>
ScorePaths == {ScorePath_plain, ScorePath_surname}

RECURSIVE Render(_)
Render(fs) ==
  IF fs = <<>> THEN <<>>
  ELSE Fragments[Head(fs)] \o Separator \o Render(Tail(fs))

MaxFrags == 2

\* sample A: any sequence of at most MaxFrags fragments
FragSeqs == UNION {[1..n -> 1..Len(Fragments)] : n \in 0..MaxFrags}

\* sample B: one fragment per rule, every combination of rules
RuleFragments == {1, 2, 3, 4, 9}

RECURSIVE SetToSeq(_)
SetToSeq(S) ==
  IF S = {} THEN <<>>
  ELSE LET m == CHOOSE x \in S : \A y \in S : x <= y
       IN  <<m>> \o SetToSeq(S \ {m})

RuleCombos == {SetToSeq(S) : S \in SUBSET RuleFragments}

(***************************************************************************)
(* Filesystem snapshots scanned by the pipeline                            *)
(***************************************************************************)
Body_email ==
  <<"F","r","o","m",":"," ","a","@","b",".","c","o","m","\n","T","o",":"," "," ","c","@",
       "d",".","o","r","g"," ","\n","S","u","b","j","e","c","t",":"," ","R","e","t","a","i",
       "n","e","r"," ","A","g","r","e","e","m","e","n","t","\n","\n","D","e","a","r"," ",
       "M","r","."," ","S","c","h","a","t","z",",","\n","s","e","e"," ","a","t","t","a","c",
       "h","e","d",".","\n">>
Body_email_v2 ==
  <<"F","r","o","m",":"," ","x","@","y",".","n","e","t","\r","\n","S","u","b","j","e",
       "c","t",":"," ","l","u","n","c","h","\r","\n","\r","\n","A","l","l","e","n"," ","G",
       "l","a","s","s","m","a","n"," ","c","a","l","l","e","d",".","\r","\n">>
Body_text   == <<"C","a","f","0xC3","0xA9"," ","n","o","t","e","s"," ","f","o","r"," ","c","o","u",
       "n","0xFF","s","e","l",":","\r","t","h","e"," ","I","N","V","O","I","C","E"," ","i",
       "s"," ","o","v","e","r","d","u","e",".","\r">>
Body_low    == <<"c","a","l","l"," ","t","h","e"," ","a","t","t","o","r","n","e","y","\n">>
Body_pdf    == <<"%","P","D","F","-","1",".","4"," ","S","c","h","a","t","z"," ","r","e","t","a","i",
       "n","e","r">>
Body_docx   == <<"P","K"," ","w","o","r","d","/","d","o","c","u","m","e","n","t",".","x","m","l">>
Body_jpg    == <<"J","F","I","F">>

FileKeys == {"email", "email_v2", "moved", "upper", "text", "low", "pdf", "docx", "jpg"}

\* st_ctime and st_mtime of the catalogue files, as datetime.fromtimestamp
\* takes them: whole seconds since the epoch and microseconds.  The first
\* two are an hour apart, one on each side of the end of daylight saving
\* time in America/Chicago (2023-11-05 01:00 CDT and 01:00 CST).
Time_early == [s |-> 1699164000, us |-> 0]
Time_late  == [s |-> 1699167600, us |-> 0]
Time_frac  == [s |-> 1710000000, us |-> 250000]

\* path, bytes (line ends "\n", "\r\n" or "\r"), st_ctime, st_mtime of each
\* catalogue file
Catalogue(k) ==
  CASE k = "email"    -> [path |-> <<"/","v","a","u","l","t","/","a",".","e","m","l">>,            content |-> Body_email,    ctime |-> Time_early, mtime |-> Time_early]
    [] k = "email_v2" -> [path |-> <<"/","v","a","u","l","t","/","a",".","e","m","l">>,            content |-> Body_email_v2, ctime |-> Time_early, mtime |-> Time_late]
    [] k = "moved"    -> [path |-> <<"/","v","a","u","l","t","/","o","l","d","/","a",".","e","m","l">>,        content |-> Body_email,    ctime |-> Time_late,  mtime |-> Time_early]
    [] k = "upper"    -> [path |-> <<"/","v","a","u","l","t","/","c","o","p","y","/","a",".","E","M","L">>,       content |-> Body_email,    ctime |-> Time_early, mtime |-> Time_early]
    [] k = "text"     -> [path |-> <<"/","v","a","u","l","t","/","n","o","t","e","s",".","t","x","t">>,        content |-> Body_text,     ctime |-> Time_early, mtime |-> Time_frac]
    [] k = "low"      -> [path |-> <<"/","v","a","u","l","t","/","t","o","d","o",".","t","x","t">>,         content |-> Body_low,      ctime |-> Time_early, mtime |-> Time_early]
    [] k = "pdf"      -> [path |-> <<"/","v","a","u","l","t","/","s","c","a","n",".","p","d","f">>,         content |-> Body_pdf,      ctime |-> Time_early, mtime |-> Time_early]
    [] k = "docx"     -> [path |-> <<"/","v","a","u","l","t","/","S","c","h","a","t","z","_","r","e","p","l","y",".","d",
       "o","c","x">>, content |-> Body_docx,    ctime |-> Time_early, mtime |-> Time_early]
    [] k = "jpg"      -> [path |-> <<"/","v","a","u","l","t","/","p","h","o","t","o",".","j","p","g">>,        content |-> Body_jpg,      ctime |-> Time_early, mtime |-> Time_early]

\* directory trees: the files of each, in one of the orders os.walk can
\* yield them
Dir_email    == <<"email">>
Dir_edited   == <<"email_v2">>
Dir_moved    == <<"moved">>
Dir_notes    == <<"text", "jpg", "low">>
Dir_replies  == <<"docx">>
Dir_scans    == <<"pdf", "upper">>

Directories == {Dir_email, Dir_edited, Dir_moved, Dir_notes, Dir_replies, Dir_scans}

\* os.walk yields the files of a directory in the order the file system
\* lists them, which is any order
Orders(d) ==
  {[i \in 1..Len(d) |-> d[p[i]]] :
     p \in {q \in [1..Len(d) -> 1..Len(d)] :
              \A i, j \in 1..Len(d) : q[i] = q[j] => i = j}}

\* directories_to_scan: the lists of directories a run walks, one after the
\* other, before it renders the report
ScanPlans ==
  {<<d>> : d \in Directories}
    \cup {<<Dir_email, Dir_email>>, <<Dir_moved, Dir_email>>}

(***************************************************************************)
(* Values                                                                  *)
(***************************************************************************)
\* Python None (a missing 'chitty_id' key makes dict.get return it)
PyNone == "<None>"

\* SQL NULL in a text column
Null == <<"<NULL>">>

\* Python truthiness of a string-or-None value: `if chitty_id:`
Truthy(x) == x # PyNone /\ x # ""

\* identifiers the service can mint
Ids == {"CID-1", "CID-2"}

\* what requests.post can yield: a transport failure, a non-200 status, or a
\* 200 whose JSON body holds a chitty_id, an empty one, or none at all
MintResponses ==
  [kind : {"http"}, status : {200}, chitty_id : Ids \cup {"", PyNone}]
    \cup {[kind |-> "http", status |-> 500, chitty_id |-> PyNone],
          [kind |-> "neterr", status |-> 0, chitty_id |-> PyNone]}

NoResponse == [kind |-> "none", status |-> 0, chitty_id |-> PyNone]

(***************************************************************************)
(* Scan eligibility and classification                                     *)
(***************************************************************************)
Ext_eml  == <<".","e","m","l">>
Ext_msg  == <<".","m","s","g">>
Ext_pdf  == <<".","p","d","f">>
Ext_txt  == <<".","t","x","t">>
Ext_docx == <<".","d","o","c","x">>

ScanExtensions == {Ext_eml, Ext_msg, Ext_pdf, Ext_txt, Ext_docx}

\* os.path.basename
basename(path) ==
  LET slashes == {i \in 1..Len(path) : path[i] = "/"}
  IN  IF slashes = {} THEN path
      ELSE DropFirst(path, CHOOSE i \in slashes : \A j \in slashes : i >= j)

\* Faulty variant: the extension test without lower()
Eligible_casesensitive(path) == \E e \in ScanExtensions : endswith(basename(path), e)

\* scan_directory: file.lower().endswith((...))
Eligible(path) == \E e \in ScanExtensions : endswith(lower(basename(path)), e)

\* process_document: filepath.endswith('.eml') / '.pdf' / '.txt' / else
document_type_of(filepath) ==
  IF endswith(filepath, Ext_eml) THEN "EMAIL"
  ELSE IF endswith(filepath, Ext_pdf) THEN "PDF"
  ELSE IF endswith(filepath, Ext_txt) THEN "TEXT"
  ELSE "UNKNOWN"

EmlSampleLen == 10000
TxtSampleLen == 5000

\* Faulty variant: a sample is read whatever the extension
content_sample_of_always(filepath, raw, readOk) ==
  IF readOk THEN TakeFirst(text_mode(decode(raw)), EmlSampleLen) ELSE <<>>

\* the f.read(n) sample of the file opened in text mode: the first n
\* characters of the decoded text; a failed open or read leaves
\* content_sample = ""
content_sample_of(filepath, raw, readOk) ==
  IF endswith(filepath, Ext_eml)
  THEN (IF readOk THEN TakeFirst(text_mode(decode(raw)), EmlSampleLen) ELSE <<>>)
  ELSE IF endswith(filepath, Ext_pdf) THEN <<>>
  ELSE IF endswith(filepath, Ext_txt)
  THEN (IF readOk THEN TakeFirst(text_mode(decode(raw)), TxtSampleLen) ELSE <<>>)
  ELSE <<>>

email_metadata_of(filepath, raw, readOk) ==
  IF endswith(filepath, Ext_eml) THEN extract_email_metadata(raw, readOk)
  ELSE EmptyDict

\* calculate_file_hash: an idealised collision-free digest of the bytes
calculate_file_hash(content) == [sha256 |-> content]

(***************************************************************************)
(* Local time: datetime.fromtimestamp(t).isoformat().  t is a time from    *)
(* the epoch on, in whole seconds and microseconds (fromtimestamp rounds   *)
(* the float of os.stat to microseconds); the zone is the one the process  *)
(* runs in.                                                                *)
(***************************************************************************)
Zones == {"UTC", "America/Chicago"}

\* days from 1970-01-01 to the day y-m-d of the Gregorian calendar
DaysFromCivil(y, m, d) ==
  LET yy  == IF m <= 2 THEN y - 1 ELSE y
      era == yy \div 400
      yoe == yy - era * 400
      mp  == (m + 9) % 12
      doy == (153 * mp + 2) \div 5 + d - 1
      doe == yoe * 365 + yoe \div 4 - yoe \div 100 + doy
  IN  era * 146097 + doe - 719468

\* the day of the Gregorian calendar z days after 1970-01-01
CivilFromDays(z) ==
  LET zz  == z + 719468
      era == zz \div 146097
      doe == zz - era * 146097
      yoe == (doe - doe \div 1460 + doe \div 36524 - doe \div 146096) \div 365
      doy == doe - (365 * yoe + yoe \div 4 - yoe \div 100)
      mp  == (5 * doy + 2) \div 153
      m   == IF mp < 10 THEN mp + 3 ELSE mp - 9
  IN  [year |-> yoe + era * 400 + (IF m <= 2 THEN 1 ELSE 0),
       month |-> m,
       day |-> doy - (153 * mp + 2) \div 5 + 1]

\* the first Sunday on or after y-m-d (1970-01-01 was a Thursday)
SundayFrom(y, m, d) ==
  LET n == DaysFromCivil(y, m, d)
  IN  n + ((7 - ((n + 4) % 7)) % 7)

\* daylight saving time in the United States, as America/Chicago keeps it:
\* the day it starts (at 02:00 standard time) and the day it ends (at
\* 02:00 daylight time) in year y
DstStart(y) ==
  CASE y >= 2007 -> SundayFrom(y, 3, 8)
    [] y \in 1987..2006 -> SundayFrom(y, 4, 1)
    [] y = 1975 -> DaysFromCivil(1975, 2, 23)
    [] y = 1974 -> DaysFromCivil(1974, 1, 6)
    [] OTHER -> SundayFrom(y, 4, 24)

DstEnd(y) == IF y >= 2007 THEN SundayFrom(y, 11, 1) ELSE SundayFrom(y, 10, 25)

\* seconds east of UTC at time s in the zone (the changes fall on whole
\* hours: 08:00 UTC on the day it starts, 07:00 UTC on the day it ends)
utcoffset(zone, s) ==
  IF zone = "UTC" THEN 0
  ELSE LET y == CivilFromDays((s - 21600) \div 86400).year
           hour == s \div 3600
       IN  IF DstStart(y) * 24 + 8 <= hour /\ hour < DstEnd(y) * 24 + 7
           THEN -18000 ELSE -21600

\* n in decimal, in width digits
Decimal(n, width) ==
  [i \in 1..width |-> HexDigits[((n \div 10^(width - i)) % 10) + 1]]

\* datetime.fromtimestamp(t).isoformat(): YYYY-MM-DDTHH:MM:SS of the local
\* wall clock, followed by .ffffff when the microseconds are not zero
isoformat(zone, t) ==
  LET local == t.s + utcoffset(zone, t.s)
      date  == CivilFromDays(local \div 86400)
      sod   == local % 86400
  IN  Decimal(date.year, 4) \o <<"-">> \o Decimal(date.month, 2) \o <<"-">>
        \o Decimal(date.day, 2) \o <<"T">> \o Decimal(sod \div 3600, 2) \o <<":">>
        \o Decimal((sod % 3600) \div 60, 2) \o <<":">> \o Decimal(sod % 60, 2)
        \o (IF t.us = 0 THEN <<>> ELSE <<".">> \o Decimal(t.us, 6))

(***************************************************************************)
(* Ledger store: the INSERT ... ON CONFLICT (chitty_id) DO UPDATE statement*)
(***************************************************************************)
\* the values tuple passed to cursor.execute. The fingerprint and st_size
\* are of the file's bytes, the headers and the sample of its decoded
\* text. The file is opened for text twice, by extract_email_metadata
\* (metaOk) and for the sample (sampleOk), and either open can fail on its
\* own
EvidenceValues(zone, file, metaOk, sampleOk) ==
  LET filepath == file.path
      md == email_metadata_of(filepath, file.content, metaOk)
  IN  [original_path |-> filepath,
       filename |-> basename(filepath),
       file_hash |-> calculate_file_hash(file.content),
       file_size |-> Len(file.content),
       content_type |-> document_type_of(filepath),
       created_at |-> isoformat(zone, file.ctime),
       modified_at |-> isoformat(zone, file.mtime),
       schatz_relevance_score |->
         assess_schatz_relevance(filepath, content_sample_of(filepath, file.content, sampleOk)),
       document_type |-> document_type_of(filepath),
       email_from |-> DictGet(md, "from", <<>>),
       email_to |-> DictGet(md, "to", <<>>),
       email_subject |-> DictGet(md, "subject", <<>>),
       email_date |-> DictGet(md, "date", <<>>)]

\* the catalogue and what the code derives from each file, tabulated once
Files == [k \in FileKeys |-> Catalogue(k)]
EligibleFile == [k \in FileKeys |-> Eligible(Files[k].path)]
DocumentType == [k \in FileKeys |-> document_type_of(Files[k].path)]
Evidence ==
  [zone \in Zones |->
     [k \in FileKeys |->
        [metaOk \in BOOLEAN |->
           [sampleOk \in BOOLEAN |-> EvidenceValues(zone, Files[k], metaOk, sampleOk)]]]]

InsertedRow(v, now) ==
  [original_path |-> v.original_path, filename |-> v.filename,
   file_hash |-> v.file_hash, file_size |-> v.file_size,
   content_type |-> v.content_type, created_at |-> v.created_at,
   modified_at |-> v.modified_at, ingested_at |-> now,
   schatz_relevance_score |-> v.schatz_relevance_score,
   document_type |-> v.document_type, email_from |-> v.email_from,
   email_to |-> v.email_to, email_subject |-> v.email_subject,
   email_date |-> v.email_date,
   tags |-> Null, summary |-> Null, legal_privilege |-> Null,
   evidence_category |-> Null]

\* Faulty variants of the conflict branch: one that re-stamps ingested_at, one
\* that resets the annotation columns
UpdatedRow_restamp(old, v, now) ==
  [InsertedRow(v, now) EXCEPT !.created_at = old.created_at, !.tags = old.tags,
     !.summary = old.summary, !.legal_privilege = old.legal_privilege,
     !.evidence_category = old.evidence_category]

UpdatedRow_wipe(old, v, now) ==
  [InsertedRow(v, now) EXCEPT !.created_at = old.created_at,
     !.ingested_at = old.ingested_at]

\* DO UPDATE SET ...: the twelve listed columns take the EXCLUDED values,
\* every other column (created_at, ingested_at, the annotations) is kept
UpdatedRow(old, v, now) ==
  [old EXCEPT
     !.original_path = v.original_path,
     !.filename = v.filename,
     !.file_hash = v.file_hash,
     !.file_size = v.file_size,
     !.content_type = v.content_type,
     !.modified_at = v.modified_at,
     !.schatz_relevance_score = v.schatz_relevance_score,
     !.document_type = v.document_type,
     !.email_from = v.email_from,
     !.email_to = v.email_to,
     !.email_subject = v.email_subject,
     !.email_date = v.email_date]

\* the statement fails on a NULL primary key (chitty_id is None)
UpsertAccepts(id) == id # PyNone

\* Faulty variant: a content-addressed store, where a record whose fingerprint
\* is already held updates that row instead
Upsert_bycontent(tbl, id, v, now) ==
  IF \E k \in DOMAIN tbl : tbl[k].file_hash = v.file_hash
  THEN LET k == CHOOSE k \in DOMAIN tbl : tbl[k].file_hash = v.file_hash
       IN  [tbl EXCEPT ![k] = UpdatedRow(tbl[k], v, now)]
  ELSE [k \in DOMAIN tbl \cup {id} |-> IF k = id THEN InsertedRow(v, now) ELSE tbl[k]]

\* one row per chitty_id (PRIMARY KEY): the table is a function of the key
Upsert(tbl, id, v, now) ==
  IF id \in DOMAIN tbl
  THEN [tbl EXCEPT ![id] = UpdatedRow(tbl[id], v, now)]
  ELSE [k \in DOMAIN tbl \cup {id} |-> IF k = id THEN InsertedRow(v, now) ELSE tbl[k]]

(***************************************************************************)
(* The two readings of the database methods.  init_database (lines 52-94)  *)
(* and process_document (lines 226-265) mix two indentations and do not    *)
(* compile: the statements stand at the indentation of `with`, the commit  *)
(* one level deeper.  "below": the text as it stands with the commit       *)
(* brought out to the statements, so that the with block holds             *)
(* conn.cursor() alone and the statements run after the connection went    *)
(* back to the pool.  "inside": the statements taken into the block, where *)
(* the commit is.  generate_report compiles and is of the first kind.      *)
(***************************************************************************)
Layouts == {"inside", "below"}

DbFaults == {"ok", "getconn", "execute", "commit"}

\* steps of `with self.get_db_connection() as conn:` around one statement
\* and its commit.  A failing getconn raises before anything is held.
\* inside: get_db_connection catches the psycopg2.Error, rolls back,
\* releases the connection and raises RuntimeError.  below: the connection
\* is back in the pool before the statement runs and nothing rolls back;
\* the pool (psycopg2.pool, putconn) rolls back a connection it is handed
\* in a transaction, so what a failed call left open is discarded when the
\* next operation passes the connection through the pool.
upsert_steps(conn_layout, db) ==
  IF db = "getconn" THEN <<"getconn">>
  ELSE IF conn_layout = "inside"
  THEN CASE db = "execute" -> <<"getconn", "execute", "rollback", "putconn">>
         [] db = "commit"  -> <<"getconn", "execute", "commit", "rollback", "putconn">>
         [] db = "ok"      -> <<"getconn", "execute", "commit", "putconn">>
  ELSE CASE db = "execute" -> <<"getconn", "putconn", "execute">>
         [] db = "commit"  -> <<"getconn", "putconn", "execute", "commit">>
         [] db = "ok"      -> <<"getconn", "putconn", "execute", "commit">>

(***************************************************************************)
(* process_document                                                        *)
(***************************************************************************)
\* what the environment does during one call: os.stat in generate_chitty_id
\* (statOk), the mint request, the hashing read, os.stat in process_document
\* (stat2Ok), the two text-mode reads, the database
CallInputs ==
  [statOk : BOOLEAN, resp : MintResponses, hashOk : BOOLEAN, stat2Ok : BOOLEAN,
   metaOk : BOOLEAN, sampleOk : BOOLEAN, db : DbFaults]

NormalResponse(r) == r.kind = "http" /\ r.status = 200 /\ r.chitty_id \in Ids

FaultCount(inp) ==
    (IF inp.statOk THEN 0 ELSE 1) + (IF NormalResponse(inp.resp) THEN 0 ELSE 1)
  + (IF inp.hashOk THEN 0 ELSE 1) + (IF inp.stat2Ok THEN 0 ELSE 1)
  + (IF inp.metaOk THEN 0 ELSE 1) + (IF inp.sampleOk THEN 0 ELSE 1)
  + (IF inp.db = "ok" THEN 0 ELSE 1)

DefaultResponse == [kind |-> "http", status |-> 200, chitty_id |-> "CID-1"]

\* inputs the call never consumes are fixed, so that one behaviour of the
\* code is one choice of inputs
Consumed(token, k, inp) ==
  /\ (~token \/ ~inp.statOk) =>
        /\ inp.resp = DefaultResponse /\ inp.hashOk /\ inp.stat2Ok
        /\ inp.metaOk /\ inp.sampleOk /\ inp.db = "ok"
  /\ ~token => inp.statOk
  /\ ~(inp.resp.kind = "http" /\ inp.resp.status = 200) =>
        inp.hashOk /\ inp.stat2Ok /\ inp.metaOk /\ inp.sampleOk /\ inp.db = "ok"
  /\ ~inp.hashOk => inp.stat2Ok /\ inp.metaOk /\ inp.sampleOk /\ inp.db = "ok"
  /\ ~inp.stat2Ok => inp.metaOk /\ inp.sampleOk /\ inp.db = "ok"
  /\ ~inp.metaOk => DocumentType[k] = "EMAIL"
  /\ ~inp.sampleOk => DocumentType[k] \in {"EMAIL", "TEXT"}
  /\ inp.resp.chitty_id = PyNone => inp.db \in {"ok", "getconn"}

\* Faulty variant: a placeholder identifier is substituted when the service fails
generate_chitty_id_placeholder(token, inp) ==
  IF ~token THEN [raised |-> TRUE, posted |-> FALSE, value |-> PyNone]
  ELSE IF ~inp.statOk THEN [raised |-> TRUE, posted |-> FALSE, value |-> PyNone]
  ELSE IF inp.resp.kind = "http" /\ inp.resp.status = 200
       THEN [raised |-> FALSE, posted |-> TRUE, value |-> inp.resp.chitty_id]
       ELSE [raised |-> FALSE, posted |-> TRUE, value |-> "CID-1"]

\* generate_chitty_id: "raise" or the returned value, and whether the POST
\* was sent
generate_chitty_id(token, inp) ==
  IF ~token THEN [raised |-> TRUE, posted |-> FALSE, value |-> PyNone]
  ELSE IF ~inp.statOk THEN [raised |-> TRUE, posted |-> FALSE, value |-> PyNone]
  ELSE IF inp.resp.kind = "neterr" THEN [raised |-> TRUE, posted |-> TRUE, value |-> PyNone]
  ELSE IF inp.resp.status = 200
       THEN [raised |-> FALSE, posted |-> TRUE, value |-> inp.resp.chitty_id]
       ELSE [raised |-> TRUE, posted |-> TRUE, value |-> PyNone]

\* the database fault a call meets: the one the environment injects, or the
\* statement refusing a NULL key
db_outcome(inp, chitty_id) ==
  IF inp.db = "getconn" THEN "getconn"
  ELSE IF inp.db = "execute" \/ ~UpsertAccepts(chitty_id) THEN "execute"
  ELSE inp.db

\* Faulty variant: the except clause is missing, a failure of the identity client
\* leaves process_document as an exception
process_document_propagating(zone, token, conn_layout, k, inp, tbl, now) ==
  LET mint == generate_chitty_id(token, inp)
      pre  == IF mint.posted THEN <<"generate_chitty_id", "stat", "mint">>
              ELSE IF token THEN <<"generate_chitty_id", "stat">>
              ELSE <<"generate_chitty_id">>
  IN  IF mint.raised
      THEN [raised |-> TRUE, ret |-> PyNone, ledger |-> tbl, trace |-> pre,
            committed |-> FALSE, inserted |-> FALSE,
            metaOk |-> inp.metaOk, sampleOk |-> inp.sampleOk]
      ELSE [raised |-> FALSE, ret |-> mint.value,
            ledger |-> Upsert(tbl, mint.value, Evidence[zone][k][inp.metaOk][inp.sampleOk], now),
            trace |-> pre \o <<"hash", "stat", "classify", "score">>
                          \o upsert_steps(conn_layout, "ok"),
            committed |-> TRUE, inserted |-> mint.value \notin DOMAIN tbl,
            metaOk |-> inp.metaOk, sampleOk |-> inp.sampleOk]

\* Faulty variant: the fingerprint is computed after the upsert, where its
\* failure comes too late to stop the write
process_document_unhashed(zone, token, conn_layout, k, inp, tbl, now) ==
  LET mint == generate_chitty_id(token, inp)
      pre  == IF mint.posted THEN <<"generate_chitty_id", "stat", "mint">>
              ELSE IF token THEN <<"generate_chitty_id", "stat">>
              ELSE <<"generate_chitty_id">>
      fail(tr) == [raised |-> FALSE, ret |-> PyNone, ledger |-> tbl, trace |-> tr,
                   committed |-> FALSE, inserted |-> FALSE,
                   metaOk |-> inp.metaOk, sampleOk |-> inp.sampleOk]
  IN  IF mint.raised THEN fail(pre)
      ELSE IF ~inp.stat2Ok THEN fail(pre \o <<"hash", "stat">>)
      ELSE
        LET chitty_id == mint.value
            v  == Evidence[zone][k][inp.metaOk][inp.sampleOk]
            db == db_outcome(inp, chitty_id)
            tr == pre \o (IF inp.hashOk THEN <<"hash", "stat", "classify", "score">>
                          ELSE <<"stat", "classify", "score">>)
                      \o upsert_steps(conn_layout, db)
                      \o (IF inp.hashOk THEN <<>> ELSE <<"hash">>)
        IN  IF db = "ok"
            THEN [raised |-> FALSE, ret |-> IF inp.hashOk THEN chitty_id ELSE PyNone,
                  ledger |-> Upsert(tbl, chitty_id, v, now), trace |-> tr,
                  committed |-> TRUE, inserted |-> chitty_id \notin DOMAIN tbl,
                  metaOk |-> inp.metaOk, sampleOk |-> inp.sampleOk]
            ELSE fail(tr)

\* The whole call: the steps taken in order (trace), whether an exception
\* leaves the call (raised), the value returned, the ledger afterwards and
\* whether the transaction committed.
process_document(zone, token, conn_layout, k, inp, tbl, now) ==
  LET mint == generate_chitty_id(token, inp)
      pre  == IF mint.posted THEN <<"generate_chitty_id", "stat", "mint">>
              ELSE IF token THEN <<"generate_chitty_id", "stat">>
              ELSE <<"generate_chitty_id">>
      \* except Exception: print, return None
      fail(tr) == [raised |-> FALSE, ret |-> PyNone, ledger |-> tbl, trace |-> tr,
                   committed |-> FALSE, inserted |-> FALSE,
                   metaOk |-> inp.metaOk, sampleOk |-> inp.sampleOk]
  IN  IF mint.raised THEN fail(pre)
      ELSE IF ~inp.hashOk THEN fail(pre \o <<"hash">>)
      ELSE IF ~inp.stat2Ok THEN fail(pre \o <<"hash", "stat">>)
      ELSE
        LET chitty_id == mint.value
            v  == Evidence[zone][k][inp.metaOk][inp.sampleOk]
            db == db_outcome(inp, chitty_id)
            tr == pre \o <<"hash", "stat", "classify", "score">>
                      \o upsert_steps(conn_layout, db)
        IN  IF db = "ok"
            THEN [raised |-> FALSE,
                  ret |-> chitty_id,
                  ledger |-> Upsert(tbl, chitty_id, v, now),
                  trace |-> tr,
                  committed |-> TRUE,
                  inserted |-> chitty_id \notin DOMAIN tbl,
                  metaOk |-> inp.metaOk, sampleOk |-> inp.sampleOk]
            ELSE fail(tr)

(***************************************************************************)
(* Report query and tiering: generate_report                               *)
(***************************************************************************)
ReportThreshold == 5
HighThreshold == 8

\* Faulty variant: the secondary sort key taken in descending order
RowBefore_latestfirst(tbl, i, j) ==
  \/ tbl[i].schatz_relevance_score > tbl[j].schatz_relevance_score
  \/ /\ tbl[i].schatz_relevance_score = tbl[j].schatz_relevance_score
     /\ tbl[i].ingested_at > tbl[j].ingested_at

\* ORDER BY schatz_relevance_score DESC, ingested_at
RowBefore(tbl, i, j) ==
  \/ tbl[i].schatz_relevance_score > tbl[j].schatz_relevance_score
  \/ /\ tbl[i].schatz_relevance_score = tbl[j].schatz_relevance_score
     /\ tbl[i].ingested_at < tbl[j].ingested_at

\* the orders in which the rows S can come back: every arrangement in which
\* no row stands after one it has to precede.  Rows equal in both sort keys
\* come in whatever order the database yields them.
OrderRows(tbl, S) ==
  {s \in [1..Cardinality(S) -> S] :
     /\ \A m, n \in 1..Cardinality(S) : s[m] = s[n] => m = n
     /\ \A m, n \in 1..Cardinality(S) : m < n => ~RowBefore(tbl, s[n], s[m])}

\* SELECT * FROM evidence_ledger WHERE schatz_relevance_score >= 5 ORDER BY
\* ...: the result lists fetchall() can return
query_relevant(tbl) ==
  OrderRows(tbl, {i \in DOMAIN tbl : tbl[i].schatz_relevance_score >= ReportThreshold})

IsHigh(tbl, i) == tbl[i].schatz_relevance_score >= HighThreshold
\* Faulty variant: the medium tier written as 5 <= score <= 8
IsMedium_inclusive(tbl, i) ==
  ReportThreshold <= tbl[i].schatz_relevance_score
    /\ tbl[i].schatz_relevance_score <= HighThreshold

IsMedium(tbl, i) ==
  ReportThreshold <= tbl[i].schatz_relevance_score
    /\ tbl[i].schatz_relevance_score < HighThreshold

RECURSIVE FilterSeq(_, _, _)
FilterSeq(s, tbl, high) ==
  IF s = <<>> THEN <<>>
  ELSE LET keep == IF high THEN IsHigh(tbl, Head(s)) ELSE IsMedium(tbl, Head(s))
       IN  (IF keep THEN <<Head(s)>> ELSE <<>>) \o FilterSeq(Tail(s), tbl, high)

\* the connection is taken and, the with block ending after conn.cursor(),
\* released; the query and fetchall() run below the block, outside the
\* try of get_db_connection
generate_report_steps(db) ==
  CASE db = "getconn" -> <<"getconn">>
    [] db = "execute" -> <<"getconn", "putconn", "execute">>
    [] db = "ok"      -> <<"getconn", "putconn", "execute", "fetchall">>

\* the report rendered from the rows fetched: the header's total and the
\* two sections' entries
render_report(tbl, results) ==
  [total |-> Len(results),
   high |-> FilterSeq(results, tbl, TRUE),
   medium |-> FilterSeq(results, tbl, FALSE)]

\* the reports a call can return
generate_report(tbl) == {render_report(tbl, results) : results \in query_relevant(tbl)}

NoReport == [total |-> -1, high |-> <<>>, medium |-> <<>>]

(***************************************************************************)
(* State                                                                   *)
(***************************************************************************)
MaxFaults == 1
MaxCurations == 1
MaxReports == 1

VARIABLES
  tokenSet,         \* CHITTY_ID_TOKEN is present in the environment
  connSet,          \* a connection string is given (NEON_CONNECTION_STRING)
  layout,           \* the reading of init_database and process_document
  tz,               \* the local time zone of the process
  ledger,           \* evidence_ledger: chitty_id -> row
  clock,            \* the database's CURRENT_TIMESTAMP: the transactions of
                    \* the pipeline, one after the other, start at distinct
                    \* and increasing times
  scanPc,           \* "start" (nothing constructed yet), "exit" (the script
                    \* left with status 1), "refused" (the constructor
                    \* raised), "idle", "walking" (inside scan_directory's
                    \* loop), "done", "aborted" (an exception left the
                    \* operation), "reported"
  dir,              \* the files os.walk yields, in order
  pos,              \* number of files the loop has handled
  processed_count,  \* scan_directory's counter
  mintCalls,        \* per file of this scan: calls of generate_chitty_id
  mintAttempts,     \* per file of this scan: POSTs sent to the identity service
  outcome,          \* per file of this scan: PENDING, SKIPPED, SUCCESS, FAILED
  committed,        \* per file of this scan: its upsert committed
  trace,            \* steps taken by the latest operation (init_database,
                    \* process_document, generate_report)
  lastMint,         \* response to the latest call's mint request
  lastCall,         \* the latest process_document call: file, returned id,
                    \* committed, and whether its two text reads succeeded
  issued,           \* <<chitty_id, path>> pairs delivered by HTTP 200 responses
  faults,           \* abnormal environment events so far
  todo,             \* directories_to_scan not yet walked
  curations,        \* external annotation edits so far
  reports,          \* calls of generate_report so far
  report,           \* the latest generated report
  scPc, scPath, scA, scB, scScoreA, scScoreB,
  mdPc,             \* metadata harness: "off", "input", "extracted"
  mdPad,            \* blank lines that precede the chosen lines in the file
  mdEol,            \* the character that ends each of those blank lines
  mdLines,          \* the chosen lines, as indices into HeaderChoices
  mdResult,         \* the dict extract_email_metadata returned
  schatz_timeline,  \* schatz_timeline: the rows, in order of their serial id
  tlRejected        \* evidence_id values of the inserts the database refused

pipeVars ==
  <<tokenSet, connSet, layout, tz, ledger, clock, scanPc, dir, pos, processed_count,
    mintCalls, mintAttempts, outcome, committed, trace, lastMint, lastCall,
    issued, faults, todo, curations, reports, report>>

scVars == <<scPc, scPath, scA, scB, scScoreA, scScoreB>>

mdVars == <<mdPc, mdPad, mdEol, mdLines, mdResult>>

tlVars == <<schatz_timeline, tlRejected>>

vars == <<pipeVars, scVars, mdVars, tlVars>>

NoCall ==
  [file |-> "none", id |-> PyNone, committed |-> FALSE, metaOk |-> TRUE,
   sampleOk |-> TRUE, repeat |-> FALSE]

EmptyLedger == [k \in {} |-> Null]

\* CREATE TABLE IF NOT EXISTS keeps what an earlier run recorded: a new
\* database, or one that holds the email under the identifier minted then
PriorLedger ==
  [z \in Zones |-> [k \in {"CID-1"} |-> InsertedRow(Evidence[z]["email"][TRUE][TRUE], 0)]]

InitialLedgers == [z \in Zones |-> {EmptyLedger, PriorLedger[z]}]

\* the responses that delivered the identifiers of the rows of tbl
IssuedFor(tbl) == {<<i, tbl[i].original_path>> : i \in DOMAIN tbl}

\* pool_size=5
PoolSize == 5

\* what can go wrong in the constructor: the pool cannot be created, or
\* init_database fails at getconn, at a CREATE TABLE statement, at the commit
InitFaults == {"ok", "pool", "getconn", "execute", "execute2", "commit"}

\* init_database: both CREATE TABLE IF NOT EXISTS statements and the commit
init_database(lay, db) ==
  IF db = "getconn" THEN <<"getconn">>
  ELSE IF lay = "inside"
  THEN CASE db = "execute"  -> <<"getconn", "execute", "rollback", "putconn">>
         [] db = "execute2" -> <<"getconn", "execute", "execute", "rollback", "putconn">>
         [] db = "commit"   -> <<"getconn", "execute", "execute", "commit", "rollback",
                                 "putconn">>
         [] db = "ok"       -> <<"getconn", "execute", "execute", "commit", "putconn">>
  ELSE CASE db = "execute"  -> <<"getconn", "putconn", "execute">>
         [] db = "execute2" -> <<"getconn", "putconn", "execute", "execute">>
         [] db = "commit"   -> <<"getconn", "putconn", "execute", "execute", "commit">>
         [] db = "ok"       -> <<"getconn", "putconn", "execute", "execute", "commit">>

\* nothing scanned or recorded by this process yet
Blank ==
  /\ ledger \in InitialLedgers[tz]
  /\ clock = 1
  /\ dir = <<>>
  /\ pos = 0
  /\ processed_count = 0
  /\ mintCalls = <<>>
  /\ mintAttempts = <<>>
  /\ outcome = <<>>
  /\ committed = <<>>
  /\ lastMint = NoResponse
  /\ lastCall = NoCall
  /\ issued = IssuedFor(ledger)
  /\ faults = 0
  /\ curations = 0
  /\ reports = 0
  /\ report = NoReport

\* the state right after construction: the schema in place, nothing scanned
Constructed ==
  /\ layout \in Layouts
  /\ tz \in Zones
  /\ Blank
  /\ scanPc = "idle"
  /\ trace = init_database(layout, "ok")

\* before anything runs: the environment as the process finds it
PipeInit ==
  /\ tokenSet \in BOOLEAN
  /\ connSet \in BOOLEAN
  /\ layout \in Layouts
  /\ tz \in Zones
  /\ todo \in ScanPlans
  /\ Blank
  /\ scanPc = "start"
  /\ trace = <<>>

ScoreOff ==
  /\ scPc = "off"
  /\ scPath = <<>>
  /\ scA = <<>>
  /\ scB = <<>>
  /\ scScoreA = -1
  /\ scScoreB = -1

MetaOff ==
  /\ mdPc = "off"
  /\ mdPad = 0
  /\ mdEol = "\n"
  /\ mdLines = <<>>
  /\ mdResult = EmptyDict

\* no timeline event yet
TimelineEmpty ==
  /\ schatz_timeline = <<>>
  /\ tlRejected = {}

Init == PipeInit /\ ScoreOff /\ MetaOff /\ TimelineEmpty

(***************************************************************************)
(* Start-up: the script's entry point, and the constructor called directly *)
(***************************************************************************)
\* __init__: raises ValueError without a connection string; creates the
\* pool and runs init_database otherwise.  A constructor that raises leaves
\* the caller without a (new) processor.
Constructor(db) ==
  LET ok == connSet /\ db = "ok"
  IN  /\ ~connSet => db = "ok"
      /\ faults + (IF db = "ok" THEN 0 ELSE 1) <= MaxFaults
      /\ faults' = faults + (IF db = "ok" THEN 0 ELSE 1)
      /\ scanPc' = IF ok THEN "idle"
                   ELSE IF scanPc = "start" THEN "refused" ELSE scanPc
      /\ trace' = IF ~connSet \/ db = "pool" THEN <<>> ELSE init_database(layout, db)
      /\ UNCHANGED <<tokenSet, connSet, layout, tz, ledger, clock, dir, pos,
                     processed_count, mintCalls, mintAttempts, outcome, committed,
                     lastMint, lastCall, issued, todo, curations, reports, report,
                     scVars, mdVars, tlVars>>

\* if __name__ == "__main__": exit(1) unless both variables are set, then
\* processor = SchatzEvidenceProcessor()
Main ==
  /\ scanPc = "start"
  /\ IF tokenSet /\ connSet
     THEN \E db \in InitFaults : Constructor(db)
     ELSE /\ scanPc' = "exit"
          /\ UNCHANGED <<tokenSet, connSet, layout, tz, ledger, clock, dir, pos,
                         processed_count, mintCalls, mintAttempts, outcome,
                         committed, trace, lastMint, lastCall, issued, faults, todo,
                         curations, reports, report, scVars, mdVars, tlVars>>

\* the class used by an importing caller: SchatzEvidenceProcessor() with no
\* check before it, a first time or again before any scan
Construct ==
  /\ scanPc \in {"start", "idle"}
  /\ \E db \in InitFaults : Constructor(db)

(***************************************************************************)
(* scan_directory                                                          *)
(***************************************************************************)
\* processed_count = 0 and the walk begins
ScanStart ==
  /\ scanPc \in {"idle", "done", "reported"}
  /\ todo # <<>>
  /\ todo' = Tail(todo)
  /\ scanPc' = "walking"
  /\ dir' \in Orders(Head(todo))
  /\ pos' = 0
  /\ processed_count' = 0
  /\ mintCalls' = [i \in 1..Len(Head(todo)) |-> 0]
  /\ mintAttempts' = [i \in 1..Len(Head(todo)) |-> 0]
  /\ outcome' = [i \in 1..Len(Head(todo)) |-> "PENDING"]
  /\ committed' = [i \in 1..Len(Head(todo)) |-> FALSE]
  /\ trace' = <<>>
  /\ lastMint' = NoResponse
  /\ UNCHANGED <<tokenSet, connSet, layout, tz, ledger, clock, lastCall, issued, faults,
                 curations, reports, report, scVars, mdVars, tlVars>>

\* a file whose extension is not in the accepted set: the loop passes over it
ScanSkip ==
  /\ scanPc = "walking"
  /\ pos < Len(dir)
  /\ ~EligibleFile[dir[pos + 1]]
  /\ pos' = pos + 1
  /\ outcome' = [outcome EXCEPT ![pos + 1] = "SKIPPED"]
  /\ UNCHANGED <<tokenSet, connSet, layout, tz, ledger, clock, scanPc, dir,
                 processed_count, mintCalls, mintAttempts, committed, trace, lastMint,
                 lastCall, issued, faults, todo, curations, reports, report, scVars,
                 mdVars, tlVars>>

\* an accepted file: chitty_id = self.process_document(filepath);
\* if chitty_id: processed_count += 1
ScanProcess ==
  /\ scanPc = "walking"
  /\ pos < Len(dir)
  /\ EligibleFile[dir[pos + 1]]
  /\ \E inp \in CallInputs :
     \E r \in {process_document(tz, tokenSet, layout, dir[pos + 1], inp, ledger, clock)} :
       LET k == dir[pos + 1]
           steps == {r.trace[i] : i \in 1..Len(r.trace)}
           posted == "mint" \in steps
       IN  /\ Consumed(tokenSet, k, inp)
           /\ faults + FaultCount(inp) <= MaxFaults
           /\ faults' = faults + FaultCount(inp)
           /\ ledger' = r.ledger
           /\ clock' = IF r.inserted THEN clock + 1 ELSE clock
           /\ trace' = r.trace
           /\ lastMint' = IF posted THEN inp.resp ELSE NoResponse
           /\ lastCall' =
                [file |-> k, id |-> r.ret, committed |-> r.committed,
                 metaOk |-> r.metaOk, sampleOk |-> r.sampleOk,
                 \* the call before this one committed the same document
                 \* under the same identifier
                 repeat |-> /\ lastCall.committed /\ r.committed
                            /\ lastCall.file = k /\ lastCall.id = r.ret
                            /\ lastCall.metaOk = r.metaOk
                            /\ lastCall.sampleOk = r.sampleOk]
           /\ issued' = IF posted /\ inp.resp.kind = "http" /\ inp.resp.status = 200
                        THEN issued \cup {<<inp.resp.chitty_id, Files[k].path>>}
                        ELSE issued
           /\ mintCalls' = [mintCalls EXCEPT ![pos + 1] =
                              @ + Cardinality({i \in 1..Len(r.trace) :
                                                 r.trace[i] = "generate_chitty_id"})]
           /\ mintAttempts' = [mintAttempts EXCEPT ![pos + 1] =
                                 @ + Cardinality({i \in 1..Len(r.trace) :
                                                    r.trace[i] = "mint"})]
           /\ committed' = [committed EXCEPT ![pos + 1] = r.committed]
           /\ IF r.raised
              \* scan_directory has no handler: an exception ends the walk
              THEN /\ scanPc' = "aborted"
                   /\ outcome' = outcome
                   /\ processed_count' = processed_count
                   /\ pos' = pos
              ELSE /\ scanPc' = scanPc
                   /\ outcome' = [outcome EXCEPT ![pos + 1] =
                                    IF r.committed THEN "SUCCESS" ELSE "FAILED"]
                   /\ processed_count' = IF Truthy(r.ret) THEN processed_count + 1
                                         ELSE processed_count
                   /\ pos' = pos + 1
  /\ UNCHANGED <<tokenSet, connSet, layout, tz, dir, todo, curations, reports, report,
                 scVars, mdVars, tlVars>>

\* the walk is exhausted: return processed_count
ScanFinish ==
  /\ scanPc = "walking"
  /\ pos = Len(dir)
  /\ scanPc' = "done"
  /\ UNCHANGED <<tokenSet, connSet, layout, tz, ledger, clock, dir, pos, processed_count,
                 mintCalls, mintAttempts, outcome, committed, trace, lastMint,
                 lastCall, issued, faults, todo, curations, reports, report, scVars,
                 mdVars, tlVars>>

ReportFaults == {"ok", "getconn", "execute"}

\* generate_report, called between scans or after the last one (as in
\* __main__): the report is rendered from the ledger as it stands.  A
\* failing getconn leaves as RuntimeError, a failing query as psycopg2.Error;
\* either way no report is returned and none is written.
GenerateReport(db) ==
  /\ scanPc \in {"idle", "done", "reported"}
  /\ reports < MaxReports
  /\ faults + (IF db = "ok" THEN 0 ELSE 1) <= MaxFaults
  /\ faults' = faults + (IF db = "ok" THEN 0 ELSE 1)
  /\ reports' = reports + 1
  /\ scanPc' = IF db = "ok" THEN "reported" ELSE "aborted"
  /\ IF db = "ok" THEN report' \in generate_report(ledger) ELSE report' = report
  /\ trace' = generate_report_steps(db)
  /\ UNCHANGED <<tokenSet, connSet, layout, tz, ledger, clock, dir, pos, processed_count,
                 mintCalls, mintAttempts, outcome, committed, lastMint, lastCall,
                 issued, todo, curations, scVars, mdVars, tlVars>>

(***************************************************************************)
(* Downstream curation of the annotation columns (outside the pipeline)    *)
(***************************************************************************)
Curated_tags      == <<"e","x","h","i","b","i","t","-","a">>
Curated_summary   == <<"f","e","e"," ","d","i","s","p","u","t","e">>
Curated_privilege == <<"p","r","i","v","i","l","e","g","e","d">>
Curated_category  == <<"b","i","l","l","i","n","g">>

\* a curator fills in the annotation columns of one row
Curate(id) ==
  /\ curations < MaxCurations
  /\ scanPc \in {"idle", "done"}
  /\ id \in DOMAIN ledger
  /\ ledger[id].tags = Null
  /\ curations' = curations + 1
  /\ ledger' = [ledger EXCEPT ![id].tags = Curated_tags,
                              ![id].summary = Curated_summary,
                              ![id].legal_privilege = Curated_privilege,
                              ![id].evidence_category = Curated_category]
  /\ UNCHANGED <<tokenSet, connSet, layout, tz, clock, scanPc, dir, pos, processed_count,
                 mintCalls, mintAttempts, outcome, committed, trace, lastMint,
                 lastCall, issued, faults, todo, reports, report, scVars, mdVars,
                 tlVars>>

Next ==
  \/ Main
  \/ Construct
  \/ ScanStart
  \/ ScanSkip
  \/ ScanProcess
  \/ ScanFinish
  \/ \E db \in ReportFaults : GenerateReport(db)
  \/ \E id \in Ids \cup {""} : Curate(id)

Spec == Init /\ [][Next]_vars

(***************************************************************************)
(* Scoring harness: the scorer applied to drawn inputs                     *)
(***************************************************************************)
ScoreInit ==
  /\ tokenSet = TRUE
  /\ connSet = TRUE
  /\ todo = <<>>
  /\ Constructed
  /\ layout = "inside"
  /\ tz = "UTC"
  /\ ledger = EmptyLedger
  /\ scPc = "input"
  /\ scPath \in ScorePaths
  /\ scA \in FragSeqs
  /\ scB \in RuleCombos
  /\ scScoreA = -1
  /\ scScoreB = -1
  /\ MetaOff
  /\ TimelineEmpty

AssessRelevance ==
  /\ scPc = "input"
  /\ scScoreA' = assess_schatz_relevance(scPath, Render(scA))
  /\ scScoreB' = assess_schatz_relevance(scPath, Render(scB))
  /\ scPc' = "scored"
  /\ UNCHANGED <<scPath, scA, scB, pipeVars, mdVars, tlVars>>

ScoreNext == AssessRelevance

SpecScore == ScoreInit /\ [][ScoreNext]_vars

(***************************************************************************)
(* Metadata harness: the extractor applied to drawn files                  *)
(***************************************************************************)
MetaInit ==
  /\ tokenSet = TRUE
  /\ connSet = TRUE
  /\ todo = <<>>
  /\ Constructed
  /\ layout = "inside"
  /\ tz = "UTC"
  /\ ledger = EmptyLedger
  /\ ScoreOff
  /\ mdPc = "input"
  /\ mdPad \in HeaderPads
  /\ mdEol \in PadTerminators
  /\ mdLines \in HeaderSeqs
  /\ mdResult = EmptyDict
  /\ TimelineEmpty

ExtractMetadata ==
  /\ mdPc = "input"
  /\ mdResult' = extract_email_metadata(FileText(mdPad, mdEol, mdLines), TRUE)
  /\ mdPc' = "extracted"
  /\ UNCHANGED <<mdPad, mdEol, mdLines, pipeVars, scVars, tlVars>>

MetaNext == ExtractMetadata

SpecMeta == MetaInit /\ [][MetaNext]_vars

(***************************************************************************)
(* The timeline table, written by tooling outside the pipeline             *)
(***************************************************************************)
\* SQL NULL in evidence_id
NullId == "<NULL>"

MaxEvents == 1

\* Faulty variant: a schema without the FOREIGN KEY clause
ForeignKeyAccepts_unchecked(tbl, evidence_id) == evidence_id = evidence_id

\* FOREIGN KEY (evidence_id) REFERENCES evidence_ledger (chitty_id): a NULL
\* reference passes, any other must be the key of a ledger row
ForeignKeyAccepts(tbl, evidence_id) ==
  evidence_id = NullId \/ evidence_id \in DOMAIN tbl

\* an INSERT INTO schatz_timeline: appended when the constraint accepts it,
\* refused otherwise
TimelineInsert(evidence_id) ==
  /\ scanPc \in {"idle", "done"}
  /\ Len(schatz_timeline) + Cardinality(tlRejected) < MaxEvents
  /\ IF ForeignKeyAccepts(ledger, evidence_id)
     THEN /\ schatz_timeline' =
               Append(schatz_timeline,
                      [id |-> Len(schatz_timeline) + 1,
                       evidence_id |-> evidence_id,
                       created_at |-> clock])
          /\ tlRejected' = tlRejected
     ELSE /\ schatz_timeline' = schatz_timeline
          /\ tlRejected' = tlRejected \cup {evidence_id}
  /\ UNCHANGED <<pipeVars, scVars, mdVars>>

\* the runs the timeline is observed in
TimelinePlans ==
  {<<Dir_moved, Dir_email>>}

TimelineInit ==
  /\ Init
  /\ tokenSet /\ connSet
  /\ todo \in TimelinePlans

\* the pipeline's operations, and the inserts of the timeline's writer
TimelineNext ==
  \/ Main
  \/ ScanStart
  \/ ScanProcess
  \/ ScanFinish
  \/ \E db \in ReportFaults : GenerateReport(db)
  \/ \E evidence_id \in Ids \cup {NullId} : TimelineInsert(evidence_id)

SpecTimeline == TimelineInit /\ [][TimelineNext]_vars

\* the loop of scan_directory runs on unless a call hangs
ScanLoop == ScanSkip \/ ScanProcess \/ ScanFinish

FairSpec == Spec /\ WF_vars(ScanLoop)

(***************************************************************************)
(* Properties                                                              *)
(***************************************************************************)
StepsOf(tr) == {tr[i] : i \in 1..Len(tr)}

\* this step is one call of process_document from the scan loop
ProcessStep ==
  /\ scanPc = "walking"
  /\ pos < Len(dir)
  /\ EligibleFile[dir[pos + 1]]
  /\ (pos' = pos + 1 \/ scanPc' = "aborted")

MintFailed(resp) ==
  resp.kind = "neterr" \/ (resp.kind = "http" /\ resp.status # 200)

\* C1: processing a document again - same path, content and stats, the same
\* identifier returned, the same Evidence Record built - right after it was
\* committed leaves every row and every column of the ledger as it was,
\* ingested_at included.
C1_UpsertIdempotent ==
  [][(ProcessStep /\ lastCall'.repeat) => ledger' = ledger]_vars

C1_Witness ==
  /\ lastCall.repeat
  /\ lastCall.id \in DOMAIN ledger
  /\ ledger[lastCall.id].ingested_at < clock
  /\ ledger[lastCall.id].tags = Curated_tags

\* C2: an upsert that hits an existing identity overwrites the twelve
\* pipeline-supplied columns with the new record's values and leaves
\* ingested_at, tags, summary, legal_privilege and evidence_category as they
\* were.
C2_UpsertFrame ==
  [][(ProcessStep /\ lastCall'.committed /\ lastCall'.id \in DOMAIN ledger) =>
        LET old == ledger[lastCall'.id]
            new == ledger'[lastCall'.id]
            v   == Evidence[tz][lastCall'.file][lastCall'.metaOk][lastCall'.sampleOk]
        IN  /\ new.original_path = v.original_path
            /\ new.filename = v.filename
            /\ new.file_hash = v.file_hash
            /\ new.file_size = v.file_size
            /\ new.content_type = v.content_type
            /\ new.modified_at = v.modified_at
            /\ new.schatz_relevance_score = v.schatz_relevance_score
            /\ new.document_type = v.document_type
            /\ new.email_from = v.email_from
            /\ new.email_to = v.email_to
            /\ new.email_subject = v.email_subject
            /\ new.email_date = v.email_date
            /\ new.ingested_at = old.ingested_at
            /\ new.tags = old.tags
            /\ new.summary = old.summary
            /\ new.legal_privilege = old.legal_privilege
            /\ new.evidence_category = old.evidence_category]_vars

\* a curated row, first inserted from another file, overwritten by the
\* latest call
C2_Witness ==
  /\ lastCall.committed
  /\ lastCall.id \in DOMAIN ledger
  /\ ledger[lastCall.id].tags = Curated_tags
  /\ ledger[lastCall.id].original_path = Files[lastCall.file].path
  /\ ledger[lastCall.id].created_at # isoformat(tz, Files[lastCall.file].ctime)

\* C3: when the mint request is answered with a non-200 status or fails in
\* transport, the ledger and the processed count are unchanged, neither the
\* fingerprint nor the upsert is attempted, the file ends FAILED and the
\* loop moves to the next file.
C3_MintFailureSkipsDocument ==
  [][(ProcessStep /\ MintFailed(lastMint')) =>
        /\ ledger' = ledger
        /\ processed_count' = processed_count
        /\ StepsOf(trace') \cap {"hash", "getconn", "execute", "commit"} = {}
        /\ outcome'[pos + 1] = "FAILED"
        /\ ~committed'[pos + 1]
        /\ scanPc' = "walking"
        /\ pos' = pos + 1]_vars

C3_Witness ==
  /\ scanPc = "walking"
  /\ pos >= 1 /\ pos < Len(dir)
  /\ lastMint.kind = "http" /\ lastMint.status = 500
  /\ outcome[pos] = "FAILED"
  /\ ledger = EmptyLedger

\* C4: every ledger row carries an identity that a successful mint response
\* delivered for that document's path, and never an empty or missing one.
C4_OnlyMintedIdentities ==
  \A i \in DOMAIN ledger :
    /\ Truthy(i)
    /\ <<i, ledger[i].original_path>> \in issued

\* the files of the catalogue whose extension, letter case aside, is one of
\* eml, msg, pdf, txt, docx
AcceptedFiles == FileKeys \ {"jpg"}

\* C5: in a scan the identity client is invoked exactly once for each file
\* already handled whose extension is accepted (case-insensitively), never
\* for another file, and an invocation sends at most one request.
C5_OneMintPerEligibleFile ==
  \A i \in 1..Len(dir) :
    /\ mintCalls[i] = IF i <= pos /\ dir[i] \in AcceptedFiles THEN 1 ELSE 0
    /\ mintAttempts[i] <= mintCalls[i]

C5_Witness ==
  /\ scanPc = "done"
  /\ dir = Dir_notes
  /\ outcome[1] = "FAILED"
  /\ mintCalls = <<1, 0, 1>>
  /\ mintAttempts = <<1, 0, 1>>

ScanOutcomesFinal ==
  \A i \in 1..Len(dir) :
    IF dir[i] \in AcceptedFiles THEN outcome[i] \in {"SUCCESS", "FAILED"}
    ELSE outcome[i] = "SKIPPED"

\* C6: a scan that has begun always reaches its end, with every accepted
\* file in a terminal state SUCCESS or FAILED, whatever failed on the way.
C6_ScanCompletes ==
  (scanPc = "walking") ~> (scanPc = "done" /\ ScanOutcomesFinal)

C6_Witness ==
  /\ scanPc = "done"
  /\ \E i, j \in 1..Len(dir) : i < j /\ outcome[i] = "FAILED" /\ outcome[j] = "SUCCESS"

\* C7: the count scan_directory returns is the number of files whose upsert
\* committed during the scan.
C7_CountEqualsCommits ==
  scanPc = "done" =>
    processed_count = Cardinality({i \in 1..Len(dir) : committed[i]})

\* The five rules, numbered in the order of the specification (surname,
\* email address, opposing counsel, legal term, financial term), and which
\* of them each fragment and path satisfies by construction; the email
\* address contains the surname, so its fragment satisfies rules 1 and 2.
FragRules ==
  <<{1}, {1, 2}, {3}, {4}, {4}, {4}, {5}, {5}, {5}, {}, {}>>

RuleWeight == <<8, 9, 6, 3, 4>>

PathRules(p) == IF p = ScorePath_surname THEN {1} ELSE {}

RECURSIVE RulesOf(_)
RulesOf(fs) ==
  IF fs = <<>> THEN {} ELSE FragRules[Head(fs)] \cup RulesOf(Tail(fs))

\* the sum of the contributions of the rules in rs
RECURSIVE SumWeights(_)
SumWeights(rs) ==
  IF rs = {} THEN 0
  ELSE LET r == CHOOSE x \in rs : TRUE IN RuleWeight[r] + SumWeights(rs \ {r})

RulesMatched(p, fs) == PathRules(p) \cup RulesOf(fs)

ExpectedScore(p, fs) == Min(SumWeights(RulesMatched(p, fs)), 10)

\* C8: the score is min(10, sum of the contributions of the rules that
\* match), an integer in 0..10.
C8_ScoreIsClampedSum ==
  scPc = "scored" =>
    /\ scScoreA = ExpectedScore(scPath, scA)
    /\ scScoreB = ExpectedScore(scPath, scB)
    /\ scScoreA \in 0..10
    /\ scScoreB \in 0..10

\* surname (+8) and a financial term (+4): 12, clamped to 10
C8_Witness ==
  /\ scPc = "scored"
  /\ scPath = ScorePath_plain
  /\ RulesOf(scA) = {1, 5}
  /\ scScoreA = 10
  /\ RulesOf(scB) = {3}
  /\ scScoreB = 6

\* C9: for a fixed path, a sample that matches a superset of the rules
\* another sample matches never scores lower.
C9_ScoreMonotone ==
  scPc = "scored" =>
    /\ RulesMatched(scPath, scA) \subseteq RulesMatched(scPath, scB)
          => scScoreA <= scScoreB
    /\ RulesMatched(scPath, scB) \subseteq RulesMatched(scPath, scA)
          => scScoreB <= scScoreA

C9_Witness ==
  /\ scPc = "scored"
  /\ RulesMatched(scPath, scA) = {4}
  /\ RulesMatched(scPath, scB) = {3, 4}
  /\ scScoreA = 3
  /\ scScoreB = 9

Occurrences(s, x) == Cardinality({i \in 1..Len(s) : s[i] = x})

\* C10: in a rendered report every row with score >= 8 is listed once under
\* HIGH and not under MEDIUM, every row with 5 <= score < 8 once under
\* MEDIUM and not under HIGH, no row with score < 5 is listed, and the
\* total is the number of HIGH plus MEDIUM entries.
C10_ReportTiers ==
  scanPc = "reported" =>
    /\ \A i \in DOMAIN ledger :
         LET sc == ledger[i].schatz_relevance_score
         IN  /\ Occurrences(report.high, i) = (IF sc >= 8 THEN 1 ELSE 0)
             /\ Occurrences(report.medium, i) = (IF 5 <= sc /\ sc < 8 THEN 1 ELSE 0)
    /\ \A n \in 1..Len(report.high) : report.high[n] \in DOMAIN ledger
    /\ \A n \in 1..Len(report.medium) : report.medium[n] \in DOMAIN ledger
    /\ report.total = Len(report.high) + Len(report.medium)

C10_Witness ==
  /\ scanPc = "reported"
  /\ Len(report.high) = 1
  /\ Len(report.medium) = 1
  /\ "" \notin DOMAIN ledger

\* position of x in a sequence without repetitions (0 when absent)
PositionOf(s, x) ==
  IF \E n \in 1..Len(s) : s[n] = x THEN CHOOSE n \in 1..Len(s) : s[n] = x ELSE 0

\* s lists rows of tbl by descending score and, among equal scores, by
\* ascending ingestion time
ScoreThenIngestion(tbl, s) ==
  \A m, n \in 1..Len(s) :
    m < n =>
      \/ tbl[s[m]].schatz_relevance_score > tbl[s[n]].schatz_relevance_score
      \/ /\ tbl[s[m]].schatz_relevance_score = tbl[s[n]].schatz_relevance_score
         /\ tbl[s[m]].ingested_at <= tbl[s[n]].ingested_at

\* C11: the records the report reads are ordered by descending score and
\* then ascending ingestion time, each tier lists its rows in that order,
\* and re-processing a recorded document whose score does not change leaves
\* it on the same side of every other record of the same score.
C11_ReportOrder ==
  /\ [](/\ query_relevant(ledger) # {}
        /\ \A r \in query_relevant(ledger) : ScoreThenIngestion(ledger, r))
  /\ [](scanPc = "reported" =>
          /\ ScoreThenIngestion(ledger, report.high)
          /\ ScoreThenIngestion(ledger, report.medium)
          /\ \E r \in query_relevant(ledger) :
                /\ \A m, n \in 1..Len(report.high) :
                      m < n => PositionOf(r, report.high[m]) < PositionOf(r, report.high[n])
                /\ \A m, n \in 1..Len(report.medium) :
                      m < n => PositionOf(r, report.medium[m])
                                 < PositionOf(r, report.medium[n]))
  /\ [][(/\ ProcessStep
          /\ lastCall'.committed
          /\ lastCall'.id \in DOMAIN ledger
          /\ ledger'[lastCall'.id].schatz_relevance_score
                = ledger[lastCall'.id].schatz_relevance_score) =>
          \A j \in DOMAIN ledger :
            ledger[j].schatz_relevance_score = ledger[lastCall'.id].schatz_relevance_score
              => \A before \in query_relevant(ledger), after \in query_relevant(ledger') :
                   (PositionOf(before, j) < PositionOf(before, lastCall'.id))
                     <=> (PositionOf(after, j) < PositionOf(after, lastCall'.id))]_vars

\* two rows of equal score under HIGH; the one listed first was inserted
\* first and processed again last
C11_Witness ==
  /\ scanPc = "reported"
  /\ Len(report.high) = 2
  /\ ledger[report.high[1]].schatz_relevance_score
       = ledger[report.high[2]].schatz_relevance_score
  /\ lastCall.committed
  /\ lastCall.id = report.high[1]
  /\ ledger[report.high[1]].ingested_at < ledger[report.high[2]].ingested_at

\* label and value each chosen line carries by construction ("none": the
\* line starts with none of the four exact prefixes)
LineLabel == <<"from", "from", "to", "subject", "date", "none", "none", "none">>

LineValue ==
  <<Line_from_value, Line_from2_value, Line_to_value, Line_subject_value,
    Line_date_value, <<>>, <<>>, <<>>>>

\* the chosen lines that fall within the first 50 lines of the file
Inspected(pad, ls) == {n \in 1..Len(ls) : pad + n <= 50}

LinesLabelled(pad, ls, label) ==
  {n \in Inspected(pad, ls) : LineLabel[ls[n]] = label}

\* C12: only the first 50 lines are inspected, each label present there is
\* returned with the stripped value of the FIRST line that carries it, and
\* a label carried by no inspected line is absent from the result.
C12_FirstOccurrenceWins ==
  mdPc = "extracted" =>
    \A label \in {"from", "to", "subject", "date"} :
      LET hits == LinesLabelled(mdPad, mdLines, label)
      IN  IF hits = {} THEN label \notin DOMAIN mdResult
          ELSE /\ label \in DOMAIN mdResult
               /\ mdResult[label] =
                    LineValue[mdLines[CHOOSE n \in hits : \A k \in hits : n <= k]]

\* whether the lower-cased path holds the surname, per catalogue path
PathHasSurname == [k \in FileKeys |-> Contains(lower(Files[k].path), Term_schatz)]

SurnameInPath(path) == \E k \in FileKeys : Files[k].path = path /\ PathHasSurname[k]

Listed(rep, i) ==
  \/ \E n \in 1..Len(rep.high) : rep.high[n] = i
  \/ \E n \in 1..Len(rep.medium) : rep.medium[n] = i

\* C13: a row classified PDF or UNKNOWN carries the score of its path alone
\* (8 with the surname in the path, 0 without), and one without the surname
\* in its path is never listed in the report, whatever the file contains.
C13_UnsampledScoredByPath ==
  \A i \in DOMAIN ledger :
    ledger[i].document_type \in {"PDF", "UNKNOWN"} =>
      IF SurnameInPath(ledger[i].original_path)
      THEN ledger[i].schatz_relevance_score = 8
      ELSE /\ ledger[i].schatz_relevance_score = 0
           /\ scanPc = "reported" => ~Listed(report, i)

\* a PDF whose bytes hold the surname and a financial term, recorded with
\* score 0 and left out of a report that lists another document
C13_Witness ==
  /\ scanPc = "reported"
  /\ report.total >= 1
  /\ \E i \in DOMAIN ledger :
       /\ ledger[i].document_type = "PDF"
       /\ ledger[i].file_hash = calculate_file_hash(Body_pdf)
       /\ Contains(lower(Body_pdf), Term_schatz)
       /\ ledger[i].schatz_relevance_score = 0
       /\ ~Listed(report, i)

\* the steps are those of a process_document call
IsProcessTrace(tr) == tr # <<>> /\ tr[1] = "generate_chitty_id"

\* the call stopped at the fingerprint: calculate_file_hash raised
HashFailed(tr) == IsProcessTrace(tr) /\ tr[Len(tr)] = "hash"

\* every step named a comes before every step named b
Precedes(tr, a, b) ==
  \A m, n \in 1..Len(tr) : (tr[m] = a /\ tr[n] = b) => m < n

\* C14: in every call the mint comes before the fingerprint and the
\* fingerprint before the upsert, neither later step happening without the
\* earlier one; when the fingerprint fails after a successful mint the file
\* ends FAILED, no database step is taken, the ledger is unchanged and does
\* not gain the minted identity; and a row is only ever written under the
\* identity delivered to the very call that writes it.
C14_MintHashUpsertOrder ==
  /\ [](IsProcessTrace(trace) =>
          /\ Precedes(trace, "mint", "hash")
          /\ Precedes(trace, "hash", "getconn")
          /\ Precedes(trace, "hash", "execute")
          /\ "hash" \in StepsOf(trace) => "mint" \in StepsOf(trace)
          /\ "getconn" \in StepsOf(trace) => "hash" \in StepsOf(trace))
  /\ [][(ProcessStep /\ HashFailed(trace')) =>
          /\ lastMint'.kind = "http" /\ lastMint'.status = 200
          /\ outcome'[pos + 1] = "FAILED"
          /\ StepsOf(trace') \cap {"getconn", "execute", "commit"} = {}
          /\ ledger' = ledger
          /\ lastMint'.chitty_id \notin DOMAIN ledger
                => lastMint'.chitty_id \notin DOMAIN ledger'
          /\ processed_count' = processed_count]_vars
  /\ [][\A i \in DOMAIN ledger' :
          (i \notin DOMAIN ledger \/ ledger'[i].modified_at # ledger[i].modified_at
             \/ ledger'[i].original_path # ledger[i].original_path)
            => ProcessStep /\ lastMint'.chitty_id = i /\ ~HashFailed(trace')]_vars

\* a second document minted a fresh identity and then could not be read for
\* hashing: the ledger still holds the first document only
C14_Witness ==
  /\ HashFailed(trace)
  /\ lastMint.chitty_id \in Ids
  /\ lastMint.chitty_id \notin DOMAIN ledger
  /\ ledger # EmptyLedger
  /\ pos >= 1
  /\ outcome[pos] = "FAILED"

\* the call reached the Ledger Store and did not commit
UpsertFailed(tr, call) ==
  IsProcessTrace(tr) /\ "getconn" \in StepsOf(tr) /\ ~call.committed

\* C15: when the upsert of a document fails (no connection, a failing
\* statement or a failing commit) the file ends FAILED, the ledger is exactly
\* what it was, a statement that was executed is rolled back before the
\* connection is released, the connection is asked for once and the
\* statement executed at most once, the mint is not repeated, the file is
\* not counted and the loop moves to the next file.
C15_FailedUpsertRolledBack ==
  [][(ProcessStep /\ UpsertFailed(trace', lastCall')) =>
        /\ outcome'[pos + 1] = "FAILED"
        /\ ledger' = ledger
        /\ clock' = clock
        /\ Occurrences(trace', "getconn") = 1
        /\ Occurrences(trace', "execute") <= 1
        /\ Occurrences(trace', "mint") = 1
        /\ "execute" \in StepsOf(trace') =>
              /\ Occurrences(trace', "rollback") = 1
              /\ Precedes(trace', "execute", "rollback")
              /\ Precedes(trace', "commit", "rollback")
              /\ Precedes(trace', "rollback", "putconn")
        /\ processed_count' = processed_count
        /\ lastCall'.id = PyNone
        /\ scanPc' = "walking"
        /\ pos' = pos + 1]_vars

\* the content type the extension stands for, letter case aside
ExtensionClass(path) ==
  LET p == lower(path)
  IN  IF endswith(p, Ext_eml) THEN "EMAIL"
      ELSE IF endswith(p, Ext_txt) THEN "TEXT"
      ELSE IF endswith(p, Ext_pdf) THEN "PDF"
      ELSE "UNKNOWN"

ExpectedType == [k \in FileKeys |-> ExtensionClass(Files[k].path)]

\* accepted files with the same bytes whose names are equal up to letter case
Twins ==
  [k \in FileKeys |->
     {t \in AcceptedFiles :
        /\ Files[t].content = Files[k].content
        /\ lower(basename(Files[t].path)) = lower(basename(Files[k].path))}]

\* C17: a recorded file carries the content type its extension stands for
\* irrespective of letter case (with the metadata and the sample that type
\* implies), and so the same type and score as any accepted file with the
\* same bytes whose name differs from its own in letter case only.
C17_CaseInsensitiveClassification ==
  (lastCall.committed /\ lastCall.id \in DOMAIN ledger) =>
    LET row == ledger[lastCall.id]
    IN  /\ row.document_type = ExpectedType[lastCall.file]
        /\ row.content_type = ExpectedType[lastCall.file]
        /\ \A t \in Twins[lastCall.file] :
             LET twin == Evidence[tz][t][lastCall.metaOk][lastCall.sampleOk]
             IN  /\ row.document_type = twin.document_type
                 /\ row.schatz_relevance_score = twin.schatz_relevance_score
                 /\ row.email_from = twin.email_from

\* C18: no step removes a row or re-keys one (a row keeps its key and its
\* first-insert stamps); a committed call leaves exactly the rows there were
\* plus the one keyed by the identifier the service returned to it - one
\* more row when that identifier is new, the same number when it is not,
\* whatever the path and the fingerprint of the rows present - and touches
\* no row under another key.
C18_KeyedByIdentityAlone ==
  /\ [][\A i \in DOMAIN ledger :
          /\ i \in DOMAIN ledger'
          /\ ledger'[i].created_at = ledger[i].created_at
          /\ ledger'[i].ingested_at = ledger[i].ingested_at]_vars
  /\ [][(ProcessStep /\ lastCall'.committed) =>
          /\ lastCall'.id = lastMint'.chitty_id
          /\ DOMAIN ledger' = DOMAIN ledger \cup {lastCall'.id}
          /\ Cardinality(DOMAIN ledger') =
               Cardinality(DOMAIN ledger)
                 + (IF lastCall'.id \in DOMAIN ledger THEN 0 ELSE 1)
          /\ ledger'[lastCall'.id].original_path = Files[lastCall'.file].path
          /\ \A j \in DOMAIN ledger \ {lastCall'.id} : ledger'[j] = ledger[j]]_vars

\* the same email found again under another path, with a new identifier
\* from the service: two rows with one fingerprint
C18_Witness ==
  \E i, j \in DOMAIN ledger :
    /\ i # j
    /\ ledger[i].file_hash = ledger[j].file_hash
    /\ ledger[i].original_path = Files["email"].path
    /\ ledger[j].original_path = Files["moved"].path
    /\ ledger[i].ingested_at < ledger[j].ingested_at
    /\ lastCall.id = j

\* step j takes a connection from the pool (a getconn that raises is the
\* last step of its operation)
Acquired(tr, j) == tr[j] = "getconn" /\ j < Len(tr)

\* at step i a connection taken earlier has not been given back
Held(tr, i) ==
  \E j \in 1..(i - 1) :
    Acquired(tr, j) /\ \A n \in (j + 1)..(i - 1) : tr[n] # "putconn"

\* connections checked out after step i
CheckedOut(tr, i) ==
  Cardinality({j \in 1..i : Acquired(tr, j)})
    - Cardinality({j \in 1..i : tr[j] = "putconn"})

\* C16: in every database operation each statement, commit, rollback and
\* fetch runs while the operation holds a connection taken from the pool, a
\* rollback comes before the release, at no step are more connections
\* checked out than the pool has, and none is checked out once the
\* operation is over.
C16_ConnectionScoped ==
  /\ \A i \in 1..Len(trace) :
       /\ trace[i] \in {"execute", "commit", "rollback", "fetchall"} => Held(trace, i)
       /\ CheckedOut(trace, i) \in 0..PoolSize
  /\ Precedes(trace, "rollback", "putconn")
  /\ CheckedOut(trace, Len(trace)) = 0

\* C20: with the token or the connection string missing nothing starts: the
\* run ends at start-up, no document is processed, no mint request is sent
\* and the ledger is not written.
C20_MissingConfigFatal ==
  (~tokenSet \/ ~connSet) =>
    /\ scanPc \in {"start", "exit", "refused"}
    /\ lastCall = NoCall
    /\ \A i \in 1..Len(mintCalls) : mintCalls[i] = 0
    /\ issued = IssuedFor(ledger)
    /\ ledger \in InitialLedgers[tz]

\* the evidence_id values the timeline rows refer to
TimelineRefs(tl) == {tl[n].evidence_id : n \in 1..Len(tl)} \ {NullId}

\* C19: every timeline row with a reference refers to the key of a ledger
\* row; an insert whose reference is the key of no ledger row is refused
\* and leaves the table as it was; and every pipeline operation (upsert,
\* re-upsert, failed upsert, report) leaves the timeline untouched and every
\* referenced ledger row in place.
C19_TimelineForeignKey ==
  /\ [](TimelineRefs(schatz_timeline) \subseteq DOMAIN ledger)
  /\ [][/\ tlRejected' # tlRejected =>
             /\ schatz_timeline' = schatz_timeline
             /\ (tlRejected' \ tlRejected) \cap (DOMAIN ledger \cup {NullId}) = {}
         /\ \A e \in Ids :
              (e \notin DOMAIN ledger /\ ledger' = ledger)
                => e \notin TimelineRefs(schatz_timeline')]_vars
  /\ [][(ProcessStep \/ scanPc' = "reported") =>
          /\ schatz_timeline' = schatz_timeline
          /\ TimelineRefs(schatz_timeline) \subseteq DOMAIN ledger']_vars

\* a row was recorded, an event referred to it, another document was
\* recorded after that, and the latest call upserted the referenced row
\* again before the report
C19_Witness ==
  /\ scanPc = "reported"
  /\ Len(schatz_timeline) = 1
  /\ schatz_timeline[1].evidence_id \in DOMAIN ledger
  /\ ledger[schatz_timeline[1].evidence_id].ingested_at < schatz_timeline[1].created_at
  /\ schatz_timeline[1].created_at < clock
  /\ lastCall.committed
  /\ lastCall.id = schatz_timeline[1].evidence_id

====
